---- MODULE Spec2Model ----
(***************************************************************************)
(* A state-machine model of OmniShuffle's playback/queue orchestration     *)
(* core: the Last.fm scrobble tracker (scrobbler.py), the playback adapter *)
(* (player.py) and the queue/playback coordinator with its status timer    *)
(* (main.py).                                                              *)
(*                                                                         *)
(* Time is measured in whole seconds.  Positions and durations are floats  *)
(* in the program; every comparison the program makes on them is modelled  *)
(* exactly on integers (position / duration >= 0.5 as                      *)
(* 2 * position >= duration).                                              *)
(***************************************************************************)
EXTENDS Integers, Sequences, FiniteSets, TLC

\* ------------------------------------------------------------------------
\* Bounds of the model
\* ------------------------------------------------------------------------

\* check_scrobble calls modelled per scrobble session
MaxCalls == 3

\* scrobble sessions (now_playing calls) modelled per run
MaxSessions == 2

\* the wall clock (time.time()) is observed every TimeStep seconds, up to MaxNow
TimeStep == 50

MaxNow == 150

\* pause/resume cycles counted per track (the count saturates here)
MaxCycles == 2

\* background top-up threads started per run
MaxTopUps == 1

\* play_next is invoked while the history list is shorter than this
MaxHistory == 1

\* ban_current is invoked while the ban list is shorter than this
MaxBans == 1

\* random.shuffle is followed through every permutation of lists up to this length
MaxShuffle == 3

\* provider methods called in a row
MaxFetchCalls == 2

\* volume calls made in a row
MaxVolumeCalls == 2

\* the wall clock is observed up to here while the coordinator runs
CoMaxNow == 100

\* ------------------------------------------------------------------------
\* Program constants
\* ------------------------------------------------------------------------

\* Scrobbler.SCROBBLE_THRESHOLD = 0.5, as the fraction 1 / 2
SCROBBLE_THRESHOLD_NUM == 1

SCROBBLE_THRESHOLD_DEN == 2

\* Scrobbler.SCROBBLE_MAX_TIME = 240
SCROBBLE_MAX_TIME == 240

\* ------------------------------------------------------------------------
\* Tracks
\* ------------------------------------------------------------------------

\* Optional[Track] = None
NoTrack == 0

TrackIds == 1 .. 4

\* Track.source
TrackSource == <<"spotify", "pandora", "pandora", "youtube">>

\* Track.artist and Track.title, as strings of character codes:
\* "Ab", "AB", "Bl", "Ck" and "So", "so", "S2", "Nu"
TrackArtist == << <<65, 98>>, <<65, 66>>, <<66, 108>>, <<67, 107>> >>

TrackTitle == << <<83, 111>>, <<115, 111>>, <<83, 50>>, <<78, 117>> >>

\* Track.duration as the provider declares it, 0 meaning unknown
\* (pandora.py:325 "track_length or 0", youtube tracks without a length)
MetaDuration == <<100, 100, 0, 0>>

\* the length of the stream itself, which the engine reports as mpv.duration
RealDuration == <<100, 100, 150, 100>>

\* Durations a Track may carry, 0 meaning unknown (player.py:19)
TrackDurations == {0, 100, 600}

\* _spotify_start_time: Optional[float] = None
NoTime == -1

\* Playback positions handed to check_scrobble
ScPositions == {0, 49, 50, 239, 240, 299, 300}

VARIABLES
    now,            \* time.time()
    pc,             \* per thread: the statement it is at
    ret,            \* per thread: where the call in progress returns to
    pl_track,       \* Player.current_track
    pl_paused,      \* Player.paused
    pl_loading,     \* Player._loading
    pl_connect,     \* Player._using_spotify_connect
    pl_librespot,   \* Player._using_librespot
    pl_start,       \* Player._spotify_start_time
    pl_pp,          \* Player._spotify_paused_position
    pl_temp,        \* Player._temp_file (the track it holds, or NoTrack)
    pl_source,      \* Player._spotify_source is set
    pl_device,      \* Player._spotify_device_id is set
    mpv_file,       \* the engine: the track loaded into mpv, or NoTrack
    mpv_pause,      \* the engine: mpv.pause
    mpv_pos,        \* the engine: mpv.time_pos of the loaded file
    g_frozen,       \* the position read when the last pause() was invoked
    g_resumed,      \* the clock when the last resume was invoked
    g_cycles,       \* completed pause/resume cycles on the current track
    srcs,           \* OmniShuffle.sources, as the set of their names
    queue,          \* OmniShuffle.queue
    history,        \* OmniShuffle.history
    cur,            \* OmniShuffle.current_track
    banned,         \* the persisted ban list: a set of <<artist, title>>
    playing_next,   \* OmniShuffle._playing_next
    co_paused,      \* OmniShuffle.paused
    cur_pos,        \* OmniShuffle._current_position
    loc,            \* per thread: the locals of the call it is executing
    tu,             \* the background top-up thread (fetch) and its locals
    tu_count,       \* top-up threads started so far
    cur_pos_of,     \* the track whose playback cur_pos was read from
    g_ban,          \* how the last ban_current call ended (what the provider did)
    g_tu,           \* the running top-up's queue accounting
    tdur,           \* Track.duration of every track (mutable field)
    sc_enabled,     \* Scrobbler.enabled (_enabled and network is not None)
    sc_track,       \* Scrobbler.current_track
    sc_scrobbled,   \* Scrobbler.scrobbled
    sc_error,       \* Scrobbler._last_error has been set by a failed call
    sc_sessions,    \* now_playing calls so far
    sc_calls,       \* check_scrobble calls in the session
    sc_attempts,    \* network.scrobble calls in the session
    sc_accepted,    \* network.scrobble calls that succeeded in the session
    sc_prior,       \* an earlier call of the session met the threshold
    sc_monotone,    \* the session's positions were non-decreasing so far
    sc_last,        \* the last check_scrobble call: its arguments and effect
    running,        \* OmniShuffle.running
    shut,           \* Player.shutdown() has been called
    g_try,          \* what the provider calls of the last play() answered
    info,           \* the tracks whose fetch_track_info thread is in flight
    cur_info,       \* the track current_genres/current_loved were fetched for
    current_scrobbled, \* OmniShuffle.current_scrobbled, the mark of the status line
    shut_calls,     \* Player.shutdown() calls so far
    mpv_volume,     \* the engine: mpv.volume
    proxy_env,      \* os.environ holds HTTP_PROXY, HTTPS_PROXY and ALL_PROXY
    mpv_eof,        \* the engine: an end-file event (reason EOF) awaits its handler
    g_play_at,      \* the clock when the remote playback of pl_track started
    g_ins,          \* the last top-up insertion: its index and the queue's length
    fn_log          \* calls of provider methods made directly, with what came back

clockVars == <<now>>

thVars == <<pc, ret>>

plVars == <<pl_track, pl_paused, pl_loading, pl_connect, pl_librespot, pl_start,
            pl_pp, pl_temp, pl_source, pl_device>>

mpvVars == <<mpv_file, mpv_pause, mpv_pos>>

plGhost == <<g_frozen, g_resumed, g_cycles>>

trVars == <<tdur>>

coVars == <<srcs, queue, history, cur, banned, playing_next, co_paused, cur_pos,
            loc, tu, tu_count>>

coGhost == <<cur_pos_of, g_ban, g_tu>>

runVars == <<running, shut>>

tryVars == <<g_try>>

infoVars == <<info, cur_info, current_scrobbled>>

\* what no top-level step of the key loop, the timer or a load touches
\* the engine's volume and its end-file event, the shutdown count and the
\* records of the remote start and of the last top-up insertion
auxVars == <<shut_calls, mpv_volume, proxy_env, mpv_eof, g_play_at, g_ins, fn_log>>

restVars == <<runVars, tryVars, infoVars, auxVars>>

scVars == <<sc_enabled, sc_track, sc_scrobbled, sc_error, sc_sessions,
            sc_calls, sc_attempts, sc_accepted, sc_prior, sc_monotone, sc_last>>

vars == <<clockVars, thVars, plVars, mpvVars, plGhost, trVars, scVars, coVars,
          coGhost, restVars>>

\* the threads that call into the coordinator: the key handler (main thread),
\* the status updater, and the engine's event thread (on_end_file)
Threads == {"key", "timer", "eof"}

NoCall == [called |-> FALSE, pos |-> 0, adur |-> 0, tdur |-> 0, active |-> FALSE,
           pre |-> FALSE, prior |-> FALSE, attempted |-> FALSE, ok |-> FALSE]

\* The scrobble rule as the design states it: half of a known duration, or
\* four minutes, whichever comes first; four minutes alone when the duration
\* is unknown.
ThresholdMet(pos, duration) ==
    \/ pos >= 240
    \/ duration > 0 /\ 2 * pos >= duration

\* ------------------------------------------------------------------------
\* Scrobbler (scrobbler.py)
\* ------------------------------------------------------------------------

\* check_scrobble: duration = actual_duration if actual_duration > 0 else track.duration
EffectiveDuration(adur, trackdur) == IF adur > 0 THEN adur ELSE trackdur

ShouldScrobbleAnd(pos, duration) ==
    IF duration <= 0
    THEN pos >= SCROBBLE_MAX_TIME
    ELSE /\ SCROBBLE_THRESHOLD_DEN * pos >= SCROBBLE_THRESHOLD_NUM * duration
         /\ pos >= SCROBBLE_MAX_TIME

ShouldScrobbleRatioOnUnknown(pos, duration) ==
    \/ SCROBBLE_THRESHOLD_DEN * pos >= SCROBBLE_THRESHOLD_NUM * duration
    \/ pos >= SCROBBLE_MAX_TIME

\* check_scrobble, lines 102-113: whether _scrobble() is called
ShouldScrobble(pos, duration) ==
    IF duration <= 0
    THEN pos >= SCROBBLE_MAX_TIME
    ELSE \/ SCROBBLE_THRESHOLD_DEN * pos >= SCROBBLE_THRESHOLD_NUM * duration
         \/ pos >= SCROBBLE_MAX_TIME

ScActiveIgnoresFlag == sc_enabled /\ sc_track # NoTrack

\* the guard of check_scrobble and of _scrobble
ScActive == sc_enabled /\ sc_track # NoTrack /\ ~sc_scrobbled

FlagAfterAttemptNever(net_ok) == FALSE

\* _scrobble: self.scrobbled = True only after network.scrobble returned
FlagAfterAttempt(net_ok) == net_ok

\* now_playing(track); net_ok: update_now_playing did not raise
NowPlaying(t, net_ok) ==
    /\ sc_enabled
    /\ sc_track' = t
    /\ sc_scrobbled' = FALSE
    /\ sc_error' = (sc_error \/ (~net_ok))
    /\ sc_sessions' = sc_sessions + 1
    /\ sc_calls' = 0
    /\ sc_attempts' = 0
    /\ sc_accepted' = 0
    /\ sc_prior' = FALSE
    /\ sc_monotone' = TRUE
    /\ sc_last' = NoCall
    /\ UNCHANGED <<sc_enabled>>

\* clear_now_playing(), lines 82-85: the session ends, the flag is cleared
ClearNowPlaying ==
    /\ sc_track' = NoTrack
    /\ sc_scrobbled' = FALSE
    /\ sc_calls' = 0
    /\ sc_attempts' = 0
    /\ sc_accepted' = 0
    /\ sc_prior' = FALSE
    /\ sc_monotone' = TRUE
    /\ sc_last' = NoCall
    /\ UNCHANGED <<sc_enabled, sc_error, sc_sessions>>

\* check_scrobble(position, actual_duration); net_ok: network.scrobble did not raise
CheckScrobble(pos, adur, net_ok) ==
    LET active    == ScActive
        trackdur  == IF sc_track = NoTrack THEN 0 ELSE tdur[sc_track]
        duration  == EffectiveDuration(adur, trackdur)
        attempted == active /\ ShouldScrobble(pos, duration)
    IN  /\ sc_scrobbled' = IF attempted THEN FlagAfterAttempt(net_ok) ELSE sc_scrobbled
        /\ sc_error' = (sc_error \/ (attempted /\ ~net_ok))
        /\ sc_calls' = sc_calls + 1
        /\ sc_attempts' = sc_attempts + (IF attempted THEN 1 ELSE 0)
        /\ sc_accepted' = sc_accepted + (IF attempted /\ net_ok THEN 1 ELSE 0)
        /\ sc_prior' = (sc_prior \/ ThresholdMet(pos, duration))
        /\ sc_monotone' = (sc_monotone /\ (sc_last.called => pos >= sc_last.pos))
        /\ sc_last' = [called |-> TRUE, pos |-> pos, adur |-> adur, tdur |-> trackdur,
                       active |-> sc_enabled /\ sc_track # NoTrack,
                       pre |-> sc_scrobbled, prior |-> sc_prior,
                       attempted |-> attempted, ok |-> attempted /\ net_ok]
        /\ UNCHANGED <<sc_enabled, sc_track, sc_sessions>>

ScInit ==
    /\ sc_track = NoTrack
    /\ sc_scrobbled = FALSE
    /\ sc_error = FALSE
    /\ sc_sessions = 0
    /\ sc_calls = 0
    /\ sc_attempts = 0
    /\ sc_accepted = 0
    /\ sc_prior = FALSE
    /\ sc_monotone = TRUE
    /\ sc_last = NoCall

\* ------------------------------------------------------------------------
\* Playback adapter (player.py) and the engine it drives
\* ------------------------------------------------------------------------

Min(a, b) == IF a < b THEN a ELSE b

\* _get_spotify_position
GetSpotifyPosition ==
    IF pl_paused THEN pl_pp
    ELSE IF pl_start = NoTime THEN 0
    ELSE now - pl_start + pl_pp

\* mpv.time_pos, then mpv.playback_time; None reads as 0.0
MpvPosition == IF mpv_file = NoTrack THEN 0 ELSE mpv_pos

\* Player.position
Position == IF pl_connect THEN GetSpotifyPosition ELSE MpvPosition

\* the track whose playback Position measures: the engine's time-pos belongs
\* to the file loaded in mpv (to no track when none is loaded), the remote
\* timer to the track of the remote session
PositionTrack == IF pl_connect THEN pl_track ELSE mpv_file

\* mpv.duration: known once a file is loaded
MpvDuration == IF mpv_file = NoTrack THEN 0 ELSE RealDuration[mpv_file]

\* Player.duration, the value returned
Duration ==
    IF pl_track # NoTrack /\ tdur[pl_track] > 0 THEN tdur[pl_track]
    ELSE MpvDuration

\* Player.duration, its side effect: current_track.duration = int(mpv_dur)
DurationRead ==
    tdur' = IF pl_track # NoTrack /\ tdur[pl_track] <= 0 /\ MpvDuration > 0
            THEN [tdur EXCEPT ![pl_track] = MpvDuration]
            ELSE tdur

\* __init__ and run(), line 549: the session is in its key loop, no play()
\* has asked a provider yet and no fetch_track_info thread exists
NoTry == [file |-> FALSE, remote |-> FALSE, kept |-> FALSE]

LoopInit == running = TRUE /\ shut = FALSE

InfoInit == info = {} /\ cur_info = NoTrack /\ current_scrobbled = FALSE

\* mpv starts with its default volume of 100
DefaultVolume == 100

\* no top-up insertion yet
NoIns == [pos |-> -1, len |-> -1]

\* Player.__init__: a fresh engine, no shutdown, no remote start, no top-up
AuxInit ==
    /\ shut_calls = 0
    /\ mpv_volume = DefaultVolume
    /\ proxy_env = FALSE
    /\ mpv_eof = FALSE
    /\ g_play_at = NoTime
    /\ g_ins = NoIns
    /\ fn_log = <<>>

RestInit == LoopInit /\ InfoInit /\ AuxInit /\ g_try = NoTry

\* the Pandora `proxy` setting is configured (PandoraSource._proxy is set)
HasProxy == TRUE

\* _set_proxy: the three variables are set when a proxy is configured
SetProxy == proxy_env' = (HasProxy \/ proxy_env)

\* _clear_proxy: the three variables are removed
ClearProxy == proxy_env' = FALSE

\* a Pandora method that ran to its end in one step: its finally clause has
\* cleared the variables
AfterPandoraCall(called) == proxy_env' = IF called THEN FALSE ELSE proxy_env

\* play(), lines 120-123 and 134-135: what the provider would answer for
\* this call: has_direct_streaming and get_stream_file(track) hands a file
\* back; play_track_on_device(track, device) returns True
TryFile(t) == IF TrackSource[t] = "spotify" /\ pl_source THEN BOOLEAN ELSE {FALSE}

TryRemote(t) ==
    IF TrackSource[t] = "spotify" /\ pl_source /\ pl_device THEN BOOLEAN
    ELSE {FALSE}

\* play(), lines 97-103: whether a remote session that is rendering the
\* previous track is left rendering. pause_playback is called only when the
\* new track is not a Spotify track, and an exception it raises is dropped
RemoteKept(t) ==
    IF pl_connect /\ pl_source /\ ~pl_paused
    THEN IF TrackSource[t] # "spotify" THEN BOOLEAN ELSE {TRUE}
    ELSE {FALSE}

\* play(), lines 91-117: the previous playback is given up
PlayBegin(self, t) ==
    /\ \E f \in TryFile(t), r \in TryRemote(t), k \in RemoteKept(t) :
          g_try' = [file |-> f, remote |-> r, kept |-> k]
    /\ pl_loading' = TRUE
    /\ pl_connect' = FALSE
    /\ pl_librespot' = FALSE
    /\ pl_temp' = NoTrack
    /\ pl_track' = t
    /\ pl_paused' = FALSE
    /\ pc' = [pc EXCEPT ![self] = "play_start"]
    /\ UNCHANGED <<pl_start, pl_pp, pl_source, pl_device, mpvVars>>

\* play(), lines 119-131: the prefetched direct file (librespot)
PlayLibrespot(self) ==
    /\ pc[self] = "play_start"
    /\ TrackSource[pl_track] = "spotify" /\ pl_source
    /\ g_try.file
    /\ ~shut
    /\ pl_librespot' = TRUE
    /\ pl_temp' = pl_track
    /\ mpv_file' = pl_track
    /\ mpv_pos' = 0
    /\ mpv_pause' = FALSE
    /\ pl_loading' = FALSE
    /\ pc' = [pc EXCEPT ![self] = ret[self]]
    /\ UNCHANGED <<pl_track, pl_paused, pl_connect, pl_start, pl_pp, pl_source,
                   pl_device>>

PlayConnectFirst(self) ==
    /\ pc[self] = "play_start"
    /\ TrackSource[pl_track] = "spotify" /\ pl_device /\ pl_source
    /\ g_try.remote
    /\ mpv_file' = NoTrack
    /\ mpv_pos' = 0
    /\ pl_connect' = TRUE
    /\ pl_loading' = FALSE
    /\ pc' = [pc EXCEPT ![self] = "play_timer"]
    /\ UNCHANGED <<pl_track, pl_paused, pl_librespot, pl_start, pl_pp, pl_temp,
                   pl_source, pl_device, mpv_pause>>

\* play(), lines 134-142: the remote device accepted the track
PlayConnect(self) ==
    /\ pc[self] = "play_start"
    /\ ~g_try.file
    /\ TrackSource[pl_track] = "spotify" /\ pl_device /\ pl_source
    /\ g_try.remote
    /\ mpv_file' = NoTrack
    /\ mpv_pos' = 0
    /\ pl_connect' = TRUE
    /\ pl_loading' = FALSE
    /\ pc' = [pc EXCEPT ![self] = "play_timer"]
    /\ UNCHANGED <<pl_track, pl_paused, pl_librespot, pl_start, pl_pp, pl_temp,
                   pl_source, pl_device, mpv_pause>>

\* play(), lines 143-146: the local timer of the remote session starts
PlayTimer(self) ==
    /\ pc[self] = "play_timer"
    /\ pl_start' = now
    /\ pl_pp' = 0
    /\ g_play_at' = now
    /\ pc' = [pc EXCEPT ![self] = ret[self]]
    /\ UNCHANGED <<pl_track, pl_paused, pl_loading, pl_connect, pl_librespot,
                   pl_temp, pl_source, pl_device, mpvVars>>

\* play(), lines 148-158: the local engine loads the track's URL (or a
\* search directive); _loading stays set
PlayMpv(self) ==
    /\ pc[self] = "play_start"
    /\ ~g_try.file
    /\ ~(pl_device /\ g_try.remote)
    /\ ~shut
    /\ mpv_file' = pl_track
    /\ mpv_pos' = 0
    /\ mpv_pause' = FALSE
    /\ pc' = [pc EXCEPT ![self] = ret[self]]
    /\ UNCHANGED plVars

\* play(), lines 148-158, with a stream the engine cannot open: loadfile is
\* accepted, play() returns, and the engine ends the file with an error,
\* which on_end_file (lines 63-69) ignores
PlayMpvFails(self) ==
    /\ pc[self] = "play_start"
    /\ ~g_try.file
    /\ ~(pl_device /\ g_try.remote)
    /\ ~shut
    /\ mpv_file' = NoTrack
    /\ mpv_pos' = 0
    /\ mpv_pause' = FALSE
    /\ pc' = [pc EXCEPT ![self] = ret[self]]
    /\ UNCHANGED plVars

\* play(), lines 124-129 and 149-156: the first call into the engine raises
\* (mpv.title, mpv.command: the engine is gone or refuses); nothing in play()
\* catches it, and the caller's thread unwinds
PlayRaises(self) ==
    /\ pc[self] = "play_start"
    /\ g_try.file \/ ~(pl_device /\ g_try.remote)
    /\ pl_librespot' = g_try.file
    /\ pl_temp' = IF g_try.file THEN pl_track ELSE pl_temp
    /\ pc' = [pc EXCEPT ![self] = "crashed"]
    /\ UNCHANGED <<pl_track, pl_paused, pl_loading, pl_connect, pl_start, pl_pp,
                   pl_source, pl_device, mpvVars>>

\* shutdown(), lines 301-314: the remote device is asked to pause, the
\* engine is stopped and terminated
Shutdown ==
    /\ shut' = TRUE
    /\ shut_calls' = shut_calls + 1
    /\ mpv_file' = NoTrack
    /\ mpv_pos' = 0
    /\ UNCHANGED <<plVars, mpv_pause>>

PauseSaveNothing(self) ==
    /\ pl_connect /\ pl_source /\ ~pl_paused
    /\ pc' = [pc EXCEPT ![self] = "pause_net"]
    /\ UNCHANGED <<plVars, mpvVars>>

\* pause(), lines 163-166: pausing a remote session saves the position
PauseSave(self) ==
    /\ pl_connect /\ pl_source /\ ~pl_paused
    /\ pl_pp' = GetSpotifyPosition
    /\ pc' = [pc EXCEPT ![self] = "pause_net"]
    /\ UNCHANGED <<pl_track, pl_paused, pl_loading, pl_connect, pl_librespot,
                   pl_start, pl_temp, pl_source, pl_device, mpvVars>>

\* pause(), lines 167-170: resuming a remote session re-anchors the timer
ResumeAnchor(self) ==
    /\ pl_connect /\ pl_source /\ pl_paused
    /\ pl_start' = now
    /\ pc' = [pc EXCEPT ![self] = "pause_net"]
    /\ UNCHANGED <<pl_track, pl_paused, pl_loading, pl_connect, pl_librespot,
                   pl_pp, pl_temp, pl_source, pl_device, mpvVars>>

\* pause(), line 171: after the remote call, the flag is toggled
PauseToggle(self) ==
    /\ pc[self] = "pause_net"
    /\ pl_paused' = ~pl_paused
    /\ pc' = [pc EXCEPT ![self] = "idle"]
    /\ UNCHANGED <<pl_track, pl_loading, pl_connect, pl_librespot, pl_start, pl_pp,
                   pl_temp, pl_source, pl_device, mpvVars>>

\* pause(), lines 172-174: the local engine
PauseMpv(self) ==
    /\ ~(pl_connect /\ pl_source)
    /\ pl_paused' = ~pl_paused
    /\ mpv_pause' = ~pl_paused
    /\ UNCHANGED <<pl_track, pl_loading, pl_connect, pl_librespot, pl_start, pl_pp,
                   pl_temp, pl_source, pl_device, mpv_file, mpv_pos, pc>>

\* the clock advances; the engine's time-pos advances with it while a file
\* plays (it stops at the end of the file)
Tick ==
    /\ now < MaxNow
    /\ now' = now + TimeStep
    /\ mpv_pos' = IF mpv_file # NoTrack /\ ~mpv_pause
                  THEN Min(mpv_pos + TimeStep, RealDuration[mpv_file])
                  ELSE mpv_pos
    /\ UNCHANGED <<mpv_file, mpv_pause>>

\* where a thread continues after play_next returned: the key loop waits for
\* the next key, _status_updater continues its loop, the event thread waits
\* for the engine's next event
Home(self) ==
    IF self = "timer" THEN "tm_top" ELSE IF self = "eof" THEN "ev_wait" ELSE "idle"

\* Player.__init__, lines 29-45, with the clock at its origin and no call
\* in progress
PlFieldsInit ==
    /\ now = 0
    /\ ret = [t \in Threads |-> "idle"]
    /\ pl_track = NoTrack
    /\ pl_paused = FALSE
    /\ pl_loading = FALSE
    /\ pl_connect = FALSE
    /\ pl_librespot = FALSE
    /\ pl_start = NoTime
    /\ pl_pp = 0
    /\ pl_temp = NoTrack
    /\ mpv_file = NoTrack
    /\ mpv_pause = FALSE
    /\ mpv_pos = 0
    /\ g_frozen = 0
    /\ g_resumed = 0
    /\ g_cycles = 0

\* the key loop waits for a key and the status timer is at the top of its
\* loop
PlInit ==
    /\ pc = [t \in Threads |-> Home(t)]
    /\ PlFieldsInit

\* ------------------------------------------------------------------------
\* Queue/playback coordinator (main.py): helpers
\* ------------------------------------------------------------------------

Sources == {"spotify", "pandora", "youtube"}

\* _init_sources appends the enabled sources in this order
SourceOrder == <<"spotify", "pandora", "youtube">>

\* OmniShuffle.sources
SourceList == SelectSeq(SourceOrder, LAMBDA n : n \in srcs)

\* str.lower() on a string of character codes
Lower(str) == [i \in DOMAIN str |-> IF str[i] >= 65 /\ str[i] <= 90
                                    THEN str[i] + 32 ELSE str[i]]

\* the ban list store: an artist+title pair matches under case-insensitive
\* comparison
IsBannedIn(list, artist, title) ==
    \E b \in list : Lower(b[1]) = Lower(artist) /\ Lower(b[2]) = Lower(title)

\* config.is_banned(artist, title)
IsBanned(artist, title) == IsBannedIn(banned, artist, title)

\* config.add_banned(artist, title)
AddBanned(artist, title) == banned \cup {<<artist, title>>}

LoadFilterNone(tracks) == tracks

\* load_queue: tracks = [t for t in tracks if not is_banned(t.artist, t.title)]
LoadFilter(tracks) ==
    SelectSeq(tracks, LAMBDA t : ~IsBanned(TrackArtist[t], TrackTitle[t]))

\* list.insert(pos, t) for pos >= 0: an index past the end appends
InsertAt(q, pos, t) ==
    IF pos >= Len(q) THEN Append(q, t)
    ELSE SubSeq(q, 1, pos) \o <<t>> \o SubSeq(q, pos + 1, Len(q))

\* list.pop(0): the list without its first element
PopFront(q) == Tail(q)

\* occurrences of track t in a list
Count(q, t) == Cardinality({i \in DOMAIN q : q[i] = t})

\* the list without its i-th element
Without(q, i) == SubSeq(q, 1, i - 1) \o SubSeq(q, i + 1, Len(q))

\* the list in reverse order
Reverse(q) == [i \in DOMAIN q |-> q[Len(q) + 1 - i]]

RECURSIVE AllPerms(_)

\* every ordering of a list
AllPerms(q) ==
    IF q = <<>> THEN {<<>>}
    ELSE UNION {{<<q[i]>> \o p : p \in AllPerms(Without(q, i))} : i \in DOMAIN q}

\* random.shuffle(q): any permutation; for a list longer than MaxShuffle the
\* model follows only the unchanged and the reversed order
Perms(q) == IF Len(q) <= MaxShuffle THEN AllPerms(q) ELSE {q, Reverse(q)}

\* what the providers can answer: get_liked_tracks / playlist tracks of
\* Spotify, get_radio_tracks of Pandora and of YouTube Music
SpotifyReturns == {<<>>, <<1>>}

PandoraReturns == {<<>>, <<2, 3>>}

YoutubeReturns == {<<>>, <<4>>}

\* the local variable `tracks` of load_queue: unbound until first assigned
Unbound == [bound |-> FALSE, seq |-> <<>>]

Bound(tracks) == [bound |-> TRUE, seq |-> tracks]

\* source_counts = {}: no entry for any source
NoCounts == [n \in Sources |-> -1]

NoReturned == [n \in Sources |-> <<>>]

\* the locals of a thread outside any call: track (play_next), i, tracks,
\* counts (load_queue's loop index, `tracks`, source_counts), sample (the
\* position the timer read); sample_of, ban0, returned and raised record
\* where the sample came from, the ban list when load_queue began, what each
\* provider returned to it and which provider calls raised
NoLoc == [track |-> NoTrack, i |-> 0, tracks |-> Unbound, counts |-> NoCounts,
          sample |-> 0, sample_of |-> NoTrack, ban0 |-> {},
          returned |-> NoReturned, raised |-> {}]

\* no top-up thread is running
NoTopUp == [state |-> "none", batch |-> <<>>]

NoAccount == [phase |-> "none", q0 |-> <<>>, ins |-> <<>>, popped |-> <<>>]

\* the model stops starting track transitions once the history is full
CanInvoke == Len(history) < MaxHistory

\* the account of a top-up (the queue it found, what it inserted, what was
\* popped meanwhile) follows the pops until its last insertion and ends when
\* load_queue adds tracks of its own
AccountPop(t) ==
    IF g_tu.phase = "run" THEN [g_tu EXCEPT !.popped = Append(@, t)] ELSE NoAccount

AccountEnd == NoAccount

CoInit ==
    /\ queue = <<>>
    /\ history = <<>>
    /\ cur = NoTrack
    /\ banned = {}
    /\ playing_next = FALSE
    /\ co_paused = FALSE
    /\ cur_pos = 0
    /\ loc = [t \in Threads |-> NoLoc]
    /\ tu = NoTopUp
    /\ tu_count = 0
    /\ cur_pos_of = NoTrack
    /\ g_ban = "none"
    /\ g_tu = NoAccount

\* ------------------------------------------------------------------------
\* Queue/playback coordinator (main.py): play_next
\* ------------------------------------------------------------------------

\* play_next, lines 363-364: the reentrancy guard is read
PnGuard(self) ==
    /\ pc[self] = "pn_guard"
    /\ pc' = [pc EXCEPT ![self] = IF playing_next THEN Home(self) ELSE "pn_set"]
    /\ UNCHANGED <<restVars, clockVars, ret, plVars, mpvVars, plGhost, trVars, scVars, coVars,
                   coGhost>>

\* play_next, lines 365-369: the guard is set, the current track goes to
\* the history
PnSet(self) ==
    /\ pc[self] = "pn_set"
    /\ playing_next' = TRUE
    /\ history' = IF cur # NoTrack THEN Append(history, cur) ELSE history
    /\ pc' = [pc EXCEPT ![self] = "pn_load"]
    /\ UNCHANGED <<restVars, clockVars, ret, plVars, mpvVars, plGhost, trVars, scVars, srcs,
                   queue, cur, banned, co_paused, cur_pos, loc, tu, tu_count, coGhost>>

\* play_next, lines 371-372: an empty queue is reloaded
PnLoad(self) ==
    /\ pc[self] = "pn_load"
    /\ pc' = [pc EXCEPT ![self] = IF queue = <<>> THEN "lq_reset" ELSE "pn_refill"]
    /\ UNCHANGED <<restVars, clockVars, ret, plVars, mpvVars, plGhost, trVars, scVars, coVars,
                   coGhost>>

\* play_next, lines 374-378: _refill_pandora_if_needed (lines 413-428: with
\* fewer than 3 Pandora tracks queued a fetch thread is started), then the
\* test for a queue that is still empty
\* sum(1 for t in self.queue if t.source == name)
InQueue(name) == Cardinality({i \in DOMAIN queue : TrackSource[queue[i]] = name})

RefillNeededAnyProvider == \E name \in srcs : InQueue(name) < 3

\* _refill_pandora_if_needed, lines 413-416: a fetch thread is started when
\* fewer than 3 Pandora tracks are queued and a Pandora source exists
RefillNeeded == InQueue("pandora") < 3 /\ "pandora" \in srcs

PnRefill(self) ==
    /\ pc[self] = "pn_refill"
    /\ LET start == /\ RefillNeeded
                    /\ tu.state = "none"
                    /\ tu_count < MaxTopUps
       IN  /\ tu' = IF start THEN [NoTopUp EXCEPT !.state = "fetch"] ELSE tu
           /\ tu_count' = IF start THEN tu_count + 1 ELSE tu_count
    /\ pc' = [pc EXCEPT ![self] = IF queue = <<>> THEN "pn_fin" ELSE "pn_pop"]
    /\ UNCHANGED <<restVars, clockVars, ret, plVars, mpvVars, plGhost, trVars, scVars, srcs,
                   queue, history, cur, banned, playing_next, co_paused, cur_pos, loc,
                   coGhost>>

\* play_next, lines 380-384: the front track is popped and its stream URL
\* resolved; popping an empty list raises IndexError, which leaves play_next
\* through its finally clause and ends the thread's loop
PnPop(self) ==
    /\ pc[self] = "pn_pop"
    /\ IF queue = <<>>
       THEN /\ playing_next' = FALSE
            /\ pc' = [pc EXCEPT ![self] = "crashed"]
            /\ loc' = [loc EXCEPT ![self] = NoLoc]
            /\ UNCHANGED <<queue, g_tu>>
       ELSE /\ loc' = [loc EXCEPT ![self].track = Head(queue)]
            /\ queue' = PopFront(queue)
            /\ g_tu' = AccountPop(Head(queue))
            /\ pc' = [pc EXCEPT ![self] = "pn_play"]
            /\ UNCHANGED playing_next
    /\ UNCHANGED <<restVars, clockVars, ret, plVars, mpvVars, plGhost, trVars, scVars, srcs,
                   history, cur, banned, co_paused, cur_pos, tu, tu_count, cur_pos_of,
                   g_ban>>

\* play_next, line 386: self.player.play(track) is entered
PnPlay(self) ==
    /\ pc[self] = "pn_play"
    /\ PlayBegin(self, loc[self].track)
    /\ ret' = [ret EXCEPT ![self] = "pn_cur"]
    /\ g_frozen' = 0
    /\ g_resumed' = 0
    /\ g_cycles' = 0
    /\ UNCHANGED <<auxVars, runVars, infoVars, clockVars, trVars, scVars, coVars, coGhost>>

\* play(): get_stream_file returned a file
CoPlayLibrespot(self) ==
    /\ PlayLibrespot(self)
    /\ UNCHANGED <<restVars, clockVars, ret, plGhost, trVars, scVars, coVars, coGhost>>

\* play(): play_track_on_device returned True
CoPlayConnect(self) ==
    /\ PlayConnect(self)
    /\ UNCHANGED <<restVars, clockVars, ret, plGhost, trVars, scVars, coVars, coGhost>>

\* play(): the local timer of the remote session is started
CoPlayTimer(self) ==
    /\ PlayTimer(self)
    /\ UNCHANGED <<runVars, tryVars, infoVars, shut_calls, mpv_volume, proxy_env, mpv_eof, g_ins,
                   fn_log, clockVars, ret, plGhost, trVars, scVars, coVars, coGhost>>

\* play(): neither Spotify mode started the track
CoPlayMpv(self) ==
    /\ PlayMpv(self)
    /\ UNCHANGED <<restVars, clockVars, ret, plGhost, trVars, scVars, coVars, coGhost>>

\* play_next, lines 387-403, in two steps. Lines 387-391: the popped track
\* becomes the current track, the displayed tags, the scrobbled indicator and
\* the stored position are reset. Lines 398-403, with Last.fm enabled: a
\* scrobble session is started for the track (a network call) and a
\* fetch_track_info thread is started for it
PnCur(self) ==
    /\ pc[self] \in {"pn_cur", "pn_now"}
    /\ IF pc[self] = "pn_cur"
       THEN /\ cur' = loc[self].track
            /\ cur_info' = NoTrack
            /\ current_scrobbled' = FALSE
            /\ cur_pos' = 0
            /\ cur_pos_of' = loc[self].track
            /\ pc' = [pc EXCEPT ![self] = IF sc_enabled THEN "pn_now" ELSE "pn_fin"]
            /\ UNCHANGED <<scVars, info>>
       ELSE /\ \E net_ok \in BOOLEAN : NowPlaying(loc[self].track, net_ok)
            /\ info' = info \cup {loc[self].track}
            /\ pc' = [pc EXCEPT ![self] = "pn_fin"]
            /\ UNCHANGED <<cur, cur_info, current_scrobbled, cur_pos, cur_pos_of>>
    /\ UNCHANGED <<auxVars, runVars, tryVars, clockVars, ret, plVars, mpvVars, plGhost, trVars, srcs,
                   queue, history, banned, playing_next, co_paused, loc, tu, tu_count,
                   g_ban, g_tu>>

\* play_next, lines 408-409: finally, the guard is released
PnFin(self) ==
    /\ pc[self] = "pn_fin"
    /\ playing_next' = FALSE
    /\ pc' = [pc EXCEPT ![self] = Home(self)]
    /\ loc' = [loc EXCEPT ![self] = NoLoc]
    /\ UNCHANGED <<restVars, clockVars, ret, plVars, mpvVars, plGhost, trVars, scVars, srcs,
                   queue, history, cur, banned, co_paused, cur_pos, tu, tu_count,
                   coGhost>>

\* fetch_track_info, lines 400-402: the thread started for track t stores
\* the tags and the loved flag it fetched for t
FetchTrackInfo(t) ==
    /\ t \in info
    /\ info' = info \ {t}
    /\ cur_info' = t
    /\ UNCHANGED current_scrobbled

\* a fetch_track_info thread completes
InfoDone ==
    /\ \E t \in TrackIds : FetchTrackInfo(t)
    /\ UNCHANGED <<auxVars, runVars, tryVars, clockVars, thVars, plVars, mpvVars, plGhost,
                   trVars, scVars, coVars, coGhost>>

\* ------------------------------------------------------------------------
\* load_queue, one provider at a time
\* ------------------------------------------------------------------------

\* load_queue, lines 309-310: self.queue = [], source_counts = {}
LqReset(self) ==
    /\ pc[self] = "lq_reset"
    /\ queue' = <<>>
    /\ loc' = [loc EXCEPT ![self] = [NoLoc EXCEPT !.i = 1, !.ban0 = banned]]
    /\ pc' = [pc EXCEPT ![self] = "lq_src"]
    /\ UNCHANGED <<restVars, clockVars, ret, plVars, mpvVars, plGhost, trVars, scVars, srcs,
                   history, cur, banned, playing_next, co_paused, cur_pos, tu, tu_count,
                   coGhost>>

\* load_queue, lines 343-346, for the list `tracks` the branch above left:
\* the ban filter, the extension of the queue and the count of the source
LqExtend(self, name, tracks, returned) ==
    LET kept == LoadFilter(tracks)
        l    == loc[self]
    IN  /\ queue' = queue \o kept
        /\ loc' = [loc EXCEPT ![self] =
                      [l EXCEPT !.tracks = Bound(kept), !.i = l.i + 1,
                                !.counts = [l.counts EXCEPT ![name] = Len(kept)],
                                !.returned = [l.returned EXCEPT ![name] = returned]]]
        /\ g_tu' = IF kept = <<>> THEN g_tu ELSE AccountEnd

LqSkipDropsQueue(self, name, tracks, raised) ==
    /\ loc' = [loc EXCEPT ![self] =
                  [loc[self] EXCEPT !.tracks = tracks, !.i = loc[self].i + 1,
                                    !.raised = IF raised THEN @ \cup {name} ELSE @]]
    /\ queue' = <<>>
    /\ UNCHANGED g_tu

\* load_queue: the source is passed without an entry in source_counts
\* (`continue`, or an exception caught and reported at lines 347-348)
LqSkip(self, name, tracks, raised) ==
    /\ loc' = [loc EXCEPT ![self] =
                  [loc[self] EXCEPT !.tracks = tracks, !.i = loc[self].i + 1,
                                    !.raised = IF raised THEN @ \cup {name} ELSE @]]
    /\ UNCHANGED <<queue, g_tu>>

\* load_queue, lines 317-325: liked songs, else the tracks of a random
\* playlist; get_playlists and get_tracks_from_playlist may raise
LqSpotify(self) ==
    \/ \E r \in SpotifyReturns : LqExtend(self, "spotify", r, r)
    \/ LqSkip(self, "spotify", Bound(<<>>), TRUE)

\* load_queue, lines 326-328
LqPandora(self) ==
    \E r \in PandoraReturns : LqExtend(self, "pandora", r, r)

\* load_queue, lines 329-339: `tracks` is assigned only when Spotify is
\* configured and returned liked songs to seed from; otherwise it still holds
\* what the previous source left, or nothing at all (UnboundLocalError)
LqYoutube(self) ==
    LET l == loc[self]
    IN  \/ /\ "spotify" \in srcs
           /\ \E r \in YoutubeReturns :
                 IF r = <<>>
                 THEN LqSkip(self, "youtube", Bound(r), FALSE)
                 ELSE LqExtend(self, "youtube", r, r)
        \/ IF l.tracks.bound /\ l.tracks.seq # <<>>
           THEN LqExtend(self, "youtube", l.tracks.seq, <<>>)
           ELSE LqSkip(self, "youtube", l.tracks, ~l.tracks.bound)

\* load_queue, lines 313-348: the next source of self.sources
LqSrc(self) ==
    /\ pc[self] = "lq_src"
    /\ loc[self].i <= Len(SourceList)
    /\ LET name == SourceList[loc[self].i]
       IN  CASE name = "spotify" -> LqSpotify(self)
             [] name = "pandora" -> LqPandora(self)
             [] name = "youtube" -> LqYoutube(self)
    /\ AfterPandoraCall(SourceList[loc[self].i] = "pandora")
    /\ UNCHANGED <<runVars, tryVars, infoVars, shut_calls, mpv_volume, mpv_eof, g_play_at,
                   g_ins, fn_log, clockVars, thVars, plVars, mpvVars, plGhost, trVars, scVars, srcs,
                   history, cur, banned, playing_next, co_paused, cur_pos, tu, tu_count,
                   cur_pos_of, g_ban>>

\* load_queue, lines 354-359: the queue is shuffled and the breakdown
\* reported; play_next continues at line 374, run() at line 546
LqEnd(self) ==
    /\ pc[self] = "lq_src"
    /\ loc[self].i > Len(SourceList)
    /\ queue' \in Perms(queue)
    /\ pc' = [pc EXCEPT ![self] = IF ret[self] = "run_loaded" THEN "run_loaded"
                                  ELSE "pn_refill"]
    /\ loc' = [loc EXCEPT ![self] = NoLoc]
    /\ UNCHANGED <<restVars, clockVars, ret, plVars, mpvVars, plGhost, trVars, scVars, srcs,
                   history, cur, banned, playing_next, co_paused, cur_pos, tu, tu_count,
                   coGhost>>

\* ------------------------------------------------------------------------
\* The key loop, the status timer, the top-up thread
\* ------------------------------------------------------------------------

\* run(), key 'n': play_next()
KeyNext ==
    /\ pc["key"] = "idle"
    /\ CanInvoke
    /\ pc' = [pc EXCEPT !["key"] = "pn_guard"]
    /\ UNCHANGED <<restVars, clockVars, ret, plVars, mpvVars, plGhost, trVars, scVars, coVars,
                   coGhost>>

BanCurrentUnguarded(self) ==
    /\ banned' = IF cur # NoTrack THEN AddBanned(TrackArtist[cur], TrackTitle[cur])
                 ELSE banned
    /\ g_ban' = "provider"
    /\ pc' = [pc EXCEPT ![self] = "pn_guard"]

\* source.ban_track(track): Pandora's thumbs-down answers True or, on any
\* failure, False; the other providers inherit the base answer False
BanTrackAnswers(t) == IF TrackSource[t] = "pandora" THEN BOOLEAN ELSE {FALSE}

BanCurrentIfProviderBans(self) ==
    IF cur = NoTrack
    THEN /\ g_ban' = "noop"
         /\ UNCHANGED <<banned, pc>>
    ELSE /\ \E ok \in BanTrackAnswers(cur) :
               /\ g_ban' = IF TrackSource[cur] \notin srcs THEN "local"
                           ELSE IF ok THEN "provider" ELSE "refused"
               /\ banned' = IF g_ban' = "provider"
                            THEN AddBanned(TrackArtist[cur], TrackTitle[cur])
                            ELSE banned
         /\ pc' = [pc EXCEPT ![self] = "pn_guard"]

\* ban_current, lines 463-480: nothing without a current track; otherwise the
\* pair goes to the ban list, the track's source is asked to ban it, and
\* play_next is called
BanCurrent(self) ==
    IF cur = NoTrack
    THEN /\ g_ban' = "noop"
         /\ UNCHANGED <<banned, pc>>
    ELSE /\ banned' = AddBanned(TrackArtist[cur], TrackTitle[cur])
         /\ \E ok \in BanTrackAnswers(cur) :
               g_ban' = IF TrackSource[cur] \notin srcs THEN "local"
                        ELSE IF ok THEN "provider" ELSE "refused"
         /\ pc' = [pc EXCEPT ![self] = "pn_guard"]

\* run(), key '-': ban_current()
KeyBan ==
    /\ pc["key"] = "idle"
    /\ CanInvoke
    /\ Cardinality(banned) < MaxBans
    /\ BanCurrent("key")
    /\ AfterPandoraCall(cur # NoTrack /\ TrackSource[cur] = "pandora" /\ "pandora" \in srcs)
    /\ UNCHANGED <<runVars, tryVars, infoVars, shut_calls, mpv_volume, mpv_eof, g_play_at,
                   g_ins, fn_log, clockVars, ret, plVars, mpvVars, plGhost, trVars, scVars, srcs,
                   queue, history, cur, playing_next, co_paused, cur_pos, loc, tu,
                   tu_count, cur_pos_of, g_tu>>

TmTopIgnoresRunning ==
    /\ pc["timer"] = "tm_top"
    /\ IF cur # NoTrack
       THEN /\ loc' = [loc EXCEPT !["timer"].sample = Position,
                                  !["timer"].sample_of = PositionTrack]
            /\ pc' = [pc EXCEPT !["timer"] = "tm_store"]
       ELSE /\ pc' = [pc EXCEPT !["timer"] = "tm_check"]
            /\ UNCHANGED loc
    /\ UNCHANGED <<restVars, clockVars, ret, plVars, mpvVars, plGhost, trVars, scVars, srcs,
                   queue, history, cur, banned, playing_next, co_paused, cur_pos, tu,
                   tu_count, coGhost>>

\* _status_updater, lines 186-191: the loop goes on while running is set;
\* self.player.position is read
TmTop ==
    /\ pc["timer"] = "tm_top"
    /\ running
    /\ IF cur # NoTrack
       THEN /\ loc' = [loc EXCEPT !["timer"].sample = Position,
                                  !["timer"].sample_of = PositionTrack]
            /\ pc' = [pc EXCEPT !["timer"] = "tm_store"]
       ELSE /\ pc' = [pc EXCEPT !["timer"] = "tm_check"]
            /\ UNCHANGED loc
    /\ UNCHANGED <<restVars, clockVars, ret, plVars, mpvVars, plGhost, trVars, scVars, srcs,
                   queue, history, cur, banned, playing_next, co_paused, cur_pos, tu,
                   tu_count, coGhost>>

\* _status_updater, line 191: the value read is stored in _current_position
TmStore ==
    /\ pc["timer"] = "tm_store"
    /\ cur_pos' = loc["timer"].sample
    /\ cur_pos_of' = loc["timer"].sample_of
    /\ loc' = [loc EXCEPT !["timer"] = NoLoc]
    /\ pc' = [pc EXCEPT !["timer"] = "tm_check"]
    /\ UNCHANGED <<restVars, clockVars, ret, plVars, mpvVars, plGhost, trVars, scVars, srcs,
                   queue, history, cur, banned, playing_next, co_paused, tu,
                   tu_count, g_ban, g_tu>>

\* _status_updater, lines 202-205: the test for the end of a remote session
\* would compare the stored position with the adapter's duration
TimerCompares == cur # NoTrack /\ pl_connect /\ ~co_paused

\* _status_updater, lines 215-216: the indicator is set when the tracker's
\* flag is set after the check; it is never cleared here
ScrobbledShown == current_scrobbled \/ sc_scrobbled'

\* _status_updater, lines 202-216: in a remote session the stored position
\* is compared with the adapter's duration and at the end play_next is
\* called; otherwise the scrobble check of the stored position follows
TmCheck ==
    /\ pc["timer"] = "tm_check"
    /\ IF TimerCompares /\ Duration > 0 /\ cur_pos >= Duration - 1
       THEN /\ CanInvoke
            /\ DurationRead
            /\ pc' = [pc EXCEPT !["timer"] = "pn_guard"]
            /\ UNCHANGED <<scVars, current_scrobbled>>
       ELSE /\ pc' = [pc EXCEPT !["timer"] = "tm_top"]
            /\ IF sc_enabled /\ cur # NoTrack /\ ~co_paused
               THEN /\ DurationRead
                    /\ IF cur_pos > 0
                       THEN /\ sc_calls < MaxCalls
                            /\ \E net_ok \in BOOLEAN :
                                  CheckScrobble(cur_pos, Duration, net_ok)
                            /\ current_scrobbled' = ScrobbledShown
                       ELSE UNCHANGED <<scVars, current_scrobbled>>
               ELSE /\ IF TimerCompares THEN DurationRead ELSE UNCHANGED tdur
                    /\ UNCHANGED <<scVars, current_scrobbled>>
    /\ UNCHANGED <<runVars, tryVars, info, cur_info, auxVars, clockVars, ret, plVars,
                   mpvVars, plGhost, coVars, coGhost>>

\* fetch, line 419, and get_radio_tracks, lines 279-284: the thread enters
\* get_radio_tracks, sets the proxy and issues its first request
TuCall ==
    /\ tu.state = "fetch"
    /\ tu' = [tu EXCEPT !.state = "call"]
    /\ SetProxy
    /\ UNCHANGED <<runVars, tryVars, infoVars, shut_calls, mpv_volume, mpv_eof, g_play_at,
                   g_ins, fn_log, clockVars, thVars, plVars, mpvVars, plGhost, trVars,
                   scVars, srcs, queue, history, cur, banned, playing_next, co_paused,
                   cur_pos, loc, tu_count, cur_pos_of, g_ban, g_tu>>

\* fetch, lines 417-420, and get_radio_tracks, lines 284-361:
\* get_radio_tracks returned and cleared the proxy
TuFetch ==
    /\ tu.state = "call"
    /\ \E r \in PandoraReturns :
          /\ tu' = IF r = <<>> THEN NoTopUp ELSE [state |-> "insert", batch |-> r]
          /\ g_tu' = IF r = <<>> THEN g_tu
                     ELSE [phase |-> "run", q0 |-> queue, ins |-> <<>>, popped |-> <<>>]
    /\ ClearProxy
    /\ UNCHANGED <<runVars, tryVars, infoVars, shut_calls, mpv_volume, mpv_eof, g_play_at,
                   g_ins, fn_log, clockVars, thVars, plVars, mpvVars, plGhost, trVars, scVars, srcs,
                   queue, history, cur, banned, playing_next, co_paused, cur_pos, loc,
                   tu_count, cur_pos_of, g_ban>>

\* fetch, lines 421-424: the next track of the batch is inserted at
\* random.randint(0, max(1, len(self.queue)))
InsertHiLoose(n) == n + 2

\* max(1, len(self.queue)), the upper end of random.randint at line 423
InsertHi(n) == IF n > 1 THEN n ELSE 1

TuInsert ==
    /\ tu.state = "insert"
    /\ LET t == Head(tu.batch)
       IN  /\ \E pos \in 0 .. InsertHi(Len(queue)) :
                 /\ queue' = InsertAt(queue, pos, t)
                 /\ g_ins' = [pos |-> pos, len |-> Len(queue)]
           /\ tu' = IF Tail(tu.batch) = <<>> THEN NoTopUp
                    ELSE [tu EXCEPT !.batch = Tail(@)]
           /\ g_tu' = IF g_tu.phase = "run"
                      THEN [g_tu EXCEPT !.ins = Append(@, t),
                                        !.phase = IF Tail(tu.batch) = <<>> THEN "done"
                                                  ELSE "run"]
                      ELSE g_tu
    /\ UNCHANGED <<runVars, tryVars, infoVars, shut_calls, mpv_volume, proxy_env, mpv_eof, g_play_at,
                   fn_log, clockVars, thVars, plVars, mpvVars, plGhost, trVars, scVars,
                   srcs, history, cur, banned, playing_next, co_paused, cur_pos, loc,
                   tu_count, cur_pos_of, g_ban>>

\* _status_updater, line 186: running is no longer set, the thread ends
TmExit ==
    /\ pc["timer"] = "tm_top"
    /\ ~running
    /\ pc' = [pc EXCEPT !["timer"] = "exited"]
    /\ UNCHANGED <<restVars, clockVars, ret, plVars, mpvVars, plGhost, trVars, scVars,
                   coVars, coGhost>>

\* play_next, lines 386 and 408-409: player.play(track) raised; the finally
\* clause releases the guard and the exception leaves play_next
PnPlayRaises(self) ==
    /\ PlayRaises(self)
    /\ playing_next' = FALSE
    /\ loc' = [loc EXCEPT ![self] = NoLoc]
    /\ UNCHANGED <<restVars, clockVars, ret, plGhost, trVars, scVars, srcs, queue,
                   history, cur, banned, co_paused, cur_pos, tu, tu_count, coGhost>>

\* play(): the engine could not open the stream; play() has returned
CoPlayMpvFails(self) ==
    /\ PlayMpvFails(self)
    /\ UNCHANGED <<restVars, clockVars, ret, plGhost, trVars, scVars, coVars, coGhost>>

\* run(), lines 537-544: without sources run() returns after a message;
\* otherwise load_queue is called
RunStart ==
    /\ pc["key"] = "run_start"
    /\ IF srcs = {}
       THEN /\ pc' = [pc EXCEPT !["key"] = "ended"]
            /\ UNCHANGED ret
       ELSE /\ pc' = [pc EXCEPT !["key"] = "lq_reset"]
            /\ ret' = [ret EXCEPT !["key"] = "run_loaded"]
    /\ UNCHANGED <<restVars, clockVars, plVars, mpvVars, plGhost, trVars, scVars,
                   coVars, coGhost>>

\* run(), lines 546-550: with the queue still empty run() returns;
\* otherwise running is set and play_next is called
RunLoaded ==
    /\ pc["key"] = "run_loaded"
    /\ ret' = [ret EXCEPT !["key"] = "idle"]
    /\ IF queue = <<>>
       THEN /\ pc' = [pc EXCEPT !["key"] = "ended"]
            /\ UNCHANGED running
       ELSE /\ pc' = [pc EXCEPT !["key"] = "pn_guard"]
            /\ running' = TRUE
    /\ UNCHANGED <<auxVars, shut, tryVars, infoVars, clockVars, plVars, mpvVars, plGhost,
                   trVars, scVars, coVars, coGhost>>

\* run(), lines 555-557: after the first play_next returned the status
\* thread is started, and the key loop is entered
TmStart ==
    /\ pc["timer"] = "unstarted"
    /\ pc["key"] = "idle"
    /\ pc' = [pc EXCEPT !["timer"] = "tm_top"]
    /\ UNCHANGED <<restVars, clockVars, ret, plVars, mpvVars, plGhost, trVars, scVars,
                   coVars, coGhost>>

\* the engine: the file that plays has reached its end; mpv goes idle and
\* emits end-file with reason EOF
MpvEof ==
    /\ mpv_file # NoTrack
    /\ ~mpv_pause
    /\ ~mpv_eof
    /\ mpv_pos >= RealDuration[mpv_file]
    /\ mpv_eof' = TRUE
    /\ mpv_file' = NoTrack
    /\ mpv_pos' = 0
    /\ UNCHANGED <<runVars, tryVars, infoVars, shut_calls, mpv_volume, proxy_env, g_play_at, g_ins,
                   fn_log, mpv_pause, clockVars, thVars, plVars, plGhost, trVars,
                   scVars, coVars, coGhost>>

\* on_end_file, player.py lines 63-69, in the engine's event thread: for
\* an EOF event the track-end callback (_on_track_end -> play_next) is
\* called unless _loading is set; otherwise the event is dropped
OnEndFile ==
    /\ pc["eof"] = "ev_wait"
    /\ mpv_eof
    /\ mpv_eof' = FALSE
    /\ IF ~pl_loading
       THEN /\ CanInvoke
            /\ pc' = [pc EXCEPT !["eof"] = "pn_guard"]
       ELSE UNCHANGED pc
    /\ UNCHANGED <<runVars, tryVars, infoVars, shut_calls, mpv_volume, proxy_env, g_play_at, g_ins,
                   fn_log, clockVars, ret, plVars, mpvVars, plGhost, trVars, scVars,
                   coVars, coGhost>>

\* run(), lines 566-567: key 'q' clears running and the key loop ends
KeyQuit ==
    /\ pc["key"] = "idle"
    /\ running' = FALSE
    /\ pc' = [pc EXCEPT !["key"] = "quit"]
    /\ UNCHANGED <<auxVars, shut, tryVars, infoVars, clockVars, ret, plVars, mpvVars,
                   plGhost, trVars, scVars, coVars, coGhost>>

\* run(), lines 562-563: a keyboard interrupt while waiting for a key
\* leaves the key loop (break); running is still set
KeyInterrupt ==
    /\ pc["key"] = "idle"
    /\ pc' = [pc EXCEPT !["key"] = "quit"]
    /\ UNCHANGED <<restVars, clockVars, ret, plVars, mpvVars, plGhost, trVars, scVars,
                   coVars, coGhost>>

RunFinallyKeepsRunning ==
    /\ pc["key"] \in {"quit", "crashed"}
    /\ pc' = [pc EXCEPT !["key"] = "run_shutdown"]
    /\ UNCHANGED <<runVars, auxVars, tryVars, infoVars, clockVars, ret, plVars,
                   mpvVars, plGhost, trVars, scVars, coVars, coGhost>>

\* run(), lines 601-602: the finally clause, reached when the key loop ends
\* or an exception leaves it: running is cleared
RunFinally ==
    /\ pc["key"] \in {"quit", "crashed"}
    /\ running' = FALSE
    /\ pc' = [pc EXCEPT !["key"] = "run_shutdown"]
    /\ UNCHANGED <<shut, auxVars, tryVars, infoVars, clockVars, ret, plVars, mpvVars,
                   plGhost, trVars, scVars, coVars, coGhost>>

\* run(), lines 603-605: the player is shut down and run() is left
RunShutdown ==
    /\ pc["key"] = "run_shutdown"
    /\ Shutdown
    /\ pc' = [pc EXCEPT !["key"] = "exited"]
    /\ UNCHANGED <<running, mpv_volume, proxy_env, mpv_eof, g_play_at, g_ins, fn_log, tryVars,
                   infoVars,
                   clockVars, ret, plGhost, trVars, scVars, coVars, coGhost>>

\* time passes
CTick ==
    /\ now < CoMaxNow
    /\ Tick
    /\ UNCHANGED <<restVars, thVars, plVars, plGhost, trVars, scVars, coVars, coGhost>>

\* ------------------------------------------------------------------------
\* The coordinator with the key loop, the status timer and the clock (a
\* top-up thread that play_next starts is not scheduled here)
\* ------------------------------------------------------------------------

\* the configurations of sources the coordinator is started with
SourceSets == {{"spotify", "pandora"}}

CoordInit ==
    /\ ScInit
    /\ PlInit
    /\ CoInit
    /\ RestInit
    /\ srcs \in SourceSets
    /\ pl_source = ("spotify" \in srcs)
    /\ pl_device = pl_source
    /\ sc_enabled = FALSE
    /\ tdur = MetaDuration

PlayNext(self) ==
    \/ PnGuard(self)
    \/ PnSet(self)
    \/ PnLoad(self)
    \/ LqReset(self)
    \/ LqSrc(self)
    \/ LqEnd(self)
    \/ PnRefill(self)
    \/ PnPop(self)
    \/ PnPlay(self)
    \/ CoPlayLibrespot(self)
    \/ CoPlayConnect(self)
    \/ CoPlayTimer(self)
    \/ CoPlayMpv(self)
    \/ PnCur(self)
    \/ PnFin(self)

Next ==
    \/ KeyNext
    \/ KeyBan
    \/ TmTop
    \/ TmStore
    \/ TmCheck
    \/ CTick
    \/ \E self \in Threads : PlayNext(self)

Spec == CoordInit /\ [][Next]_vars

\* ------------------------------------------------------------------------
\* The session to its end: key loop with the quit key, status timer thread
\* ------------------------------------------------------------------------

QuitNext ==
    \/ KeyNext
    \/ KeyQuit
    \/ KeyInterrupt
    \/ RunFinally
    \/ RunShutdown
    \/ TmTop
    \/ TmStore
    \/ TmCheck
    \/ TmExit
    \/ CTick
    \/ \E self \in Threads : PlayNext(self)
    \/ \E self \in Threads : PnPlayRaises(self)

SpecQuit == CoordInit /\ [][QuitNext]_vars

\* the steps of the status thread to the end of its loop, a play() that
\* raises inside its play_next included
TimerThread ==
    \/ TmTop
    \/ TmStore
    \/ TmCheck
    \/ TmExit
    \/ PlayNext("timer")
    \/ PnPlayRaises("timer")

\* the same session with the status thread scheduled fairly: the thread is
\* never suspended for ever, and the calls it makes return
SpecQuitFair == CoordInit /\ [][QuitNext]_vars /\ WF_vars(TimerThread)

\* ------------------------------------------------------------------------
\* The coordinator with the key loop and the top-up thread
\* ------------------------------------------------------------------------

TopUpNext ==
    \/ KeyNext
    \/ KeyBan
    \/ TuCall
    \/ TuFetch
    \/ TuInsert
    \/ PlayNext("key")

SpecTopUp == CoordInit /\ [][TopUpNext]_vars

\* ------------------------------------------------------------------------
\* The key loop alone: no timer, no engine event, no top-up thread scheduled
\* ------------------------------------------------------------------------

SeqSourceSets ==
    {{"spotify"}, {"youtube"}, {"pandora", "youtube"}, {"spotify", "pandora", "youtube"}}

SeqInit ==
    /\ ScInit
    /\ PlInit
    /\ CoInit
    /\ RestInit
    /\ srcs \in SeqSourceSets
    /\ pl_source = ("spotify" \in srcs)
    /\ pl_device \in {d \in BOOLEAN : d => pl_source}
    /\ sc_enabled = FALSE
    /\ tdur = MetaDuration

SeqNext ==
    \/ KeyNext
    \/ KeyBan
    \/ PlayNext("key")

SpecSeq == SeqInit /\ [][SeqNext]_vars

\* ------------------------------------------------------------------------
\* The key loop with the pause key: next, ban and pause in any order
\* ------------------------------------------------------------------------

\* toggle_pause, line 483, in a remote session that plays: player.pause()
\* saves the position and asks the device to pause
TpPause ==
    /\ pc["key"] = "idle"
    /\ PauseSave("key")
    /\ UNCHANGED <<restVars, clockVars, ret, plGhost, trVars, scVars, coVars, coGhost>>

\* toggle_pause, line 483, in a paused remote session: player.pause()
\* re-anchors the timer and asks the device to resume
TpResume ==
    /\ pc["key"] = "idle"
    /\ ResumeAnchor("key")
    /\ UNCHANGED <<restVars, clockVars, ret, plGhost, trVars, scVars, coVars, coGhost>>

\* toggle_pause, lines 483-484: player.pause() toggles its flag and returns,
\* and the coordinator copies the flag
TpMirror ==
    /\ PauseToggle("key")
    /\ co_paused' = pl_paused'
    /\ UNCHANGED <<restVars, clockVars, ret, plGhost, trVars, scVars, srcs, queue,
                   history, cur, banned, playing_next, cur_pos, loc, tu, tu_count,
                   coGhost>>

\* toggle_pause, lines 483-484, in local-engine mode
TpMpv ==
    /\ pc["key"] = "idle"
    /\ PauseMpv("key")
    /\ co_paused' = pl_paused'
    /\ UNCHANGED <<restVars, clockVars, ret, plGhost, trVars, scVars, srcs, queue,
                   history, cur, banned, playing_next, cur_pos, loc, tu, tu_count,
                   coGhost>>

KeysSourceSets == {{"spotify", "pandora"}}

KeysInit ==
    /\ ScInit
    /\ PlInit
    /\ CoInit
    /\ RestInit
    /\ srcs \in KeysSourceSets
    /\ pl_source = ("spotify" \in srcs)
    /\ pl_device \in {d \in BOOLEAN : d => pl_source}
    /\ sc_enabled = FALSE
    /\ tdur = MetaDuration

KeysNext ==
    \/ KeyNext
    \/ KeyBan
    \/ TpPause
    \/ TpResume
    \/ TpMirror
    \/ TpMpv
    \/ CTick
    \/ PlayNext("key")

SpecKeys == KeysInit /\ [][KeysNext]_vars

\* ------------------------------------------------------------------------
\* The key loop with backends that fail: the engine raises or cannot open
\* the stream
\* ------------------------------------------------------------------------

FailNext ==
    \/ KeyNext
    \/ KeyBan
    \/ PlayNext("key")
    \/ PnPlayRaises("key")
    \/ CoPlayMpvFails("key")
    \/ RunFinally
    \/ RunShutdown

SpecFail == KeysInit /\ [][FailNext]_vars

\* ------------------------------------------------------------------------
\* The session from the call of run(): start-up, then key loop and timer
\* ------------------------------------------------------------------------

RunSourceSets == {{}, {"spotify"}, {"spotify", "pandora"}}

RunInit ==
    /\ ScInit
    /\ PlFieldsInit
    /\ CoInit
    /\ InfoInit
    /\ AuxInit
    /\ g_try = NoTry
    /\ running = FALSE
    /\ shut = FALSE
    /\ pc = [t \in Threads |-> IF t = "key" THEN "run_start"
                              ELSE IF t = "timer" THEN "unstarted" ELSE Home(t)]
    /\ srcs \in RunSourceSets
    /\ pl_source = ("spotify" \in srcs)
    /\ pl_device = pl_source
    /\ sc_enabled = FALSE
    /\ tdur = MetaDuration

RunNext ==
    \/ RunStart
    \/ RunLoaded
    \/ TmStart
    \/ KeyNext
    \/ TmTop
    \/ TmStore
    \/ TmCheck
    \/ \E self \in Threads : PlayNext(self)

SpecRun == RunInit /\ [][RunNext]_vars

\* ------------------------------------------------------------------------
\* A Spotify-only session with a Connect device: key loop (next, pause), the
\* status timer and the clock, with the threads scheduled fairly
\* ------------------------------------------------------------------------

RemoteInit ==
    /\ ScInit
    /\ PlInit
    /\ CoInit
    /\ RestInit
    /\ srcs = {"spotify"}
    /\ pl_source = TRUE
    /\ pl_device = TRUE
    /\ sc_enabled = FALSE
    /\ tdur = MetaDuration

\* the steps of the status thread (a daemon thread that loops with a sleep
\* of 0.1 s)
TimerRuns ==
    \/ TmTop
    \/ TmStore
    \/ TmCheck
    \/ PlayNext("timer")

\* the steps by which a key handler that was entered runs to its end
KeyHandlerRuns ==
    \/ TpMirror
    \/ PlayNext("key")

RemoteNext ==
    \/ KeyNext
    \/ TpPause
    \/ TpResume
    \/ TpMpv
    \/ CTick
    \/ TimerRuns
    \/ KeyHandlerRuns

\* both threads are scheduled by the operating system: the status thread
\* keeps looping and an entered key handler returns; which keys are pressed
\* and when is not constrained
SpecRemote ==
    /\ RemoteInit
    /\ [][RemoteNext]_vars
    /\ WF_vars(TimerRuns)
    /\ WF_vars(KeyHandlerRuns)

\* ------------------------------------------------------------------------
\* The key loop and the status timer with Last.fm enabled: the timer hands
\* the stored position to the scrobble tracker
\* ------------------------------------------------------------------------

ScTimerInit ==
    /\ ScInit
    /\ PlInit
    /\ CoInit
    /\ RestInit
    /\ srcs \in KeysSourceSets
    /\ pl_source = TRUE
    /\ pl_device = TRUE
    /\ sc_enabled = TRUE
    /\ tdur = MetaDuration

ScTimerNext ==
    \/ KeyNext
    \/ CTick
    \/ TmTop
    \/ TmStore
    \/ TmCheck
    \/ PlayNext("key")
    \/ PlayNext("timer")

SpecScTimer == ScTimerInit /\ [][ScTimerNext]_vars

\* ------------------------------------------------------------------------
\* The key loop and the engine's event thread: tracks that play to their end
\* ------------------------------------------------------------------------

EofNext ==
    \/ KeyNext
    \/ CTick
    \/ MpvEof
    \/ OnEndFile
    \/ PlayNext("key")
    \/ PlayNext("eof")

SpecEof == KeysInit /\ [][EofNext]_vars

\* ------------------------------------------------------------------------
\* The key loop with Last.fm enabled: each started track gets a
\* fetch_track_info thread
\* ------------------------------------------------------------------------

SessionInfoInit ==
    /\ ScInit
    /\ PlInit
    /\ CoInit
    /\ RestInit
    /\ srcs \in KeysSourceSets
    /\ pl_source = ("spotify" \in srcs)
    /\ pl_device = pl_source
    /\ sc_enabled = TRUE
    /\ tdur = MetaDuration

InfoNext ==
    \/ KeyNext
    \/ KeyBan
    \/ InfoDone
    \/ PlayNext("key")

SpecInfo == SessionInfoInit /\ [][InfoNext]_vars

\* ------------------------------------------------------------------------
\* The providers on their own: fetch methods called with a remote service
\* that answers, fails, or was never connected
\* ------------------------------------------------------------------------

FetchMethods == {"get_playlists", "get_tracks_from_playlist", "get_radio_tracks"}

\* the state of the remote side during the call: the client object is unset
\* (provider not connected), the remote call answers, or it raises
RemoteStates == {"unset", "ok", "fail"}

\* what the method hands to its caller: a list with entries, an empty list,
\* or an exception.  Spotify's get_playlists and get_tracks_from_playlist
\* call the web API outside any try; every other method catches Exception
\* and returns []
Fetch(src, method, remote) ==
    IF remote = "unset" THEN "empty"
    ELSE IF remote = "ok" THEN "list"
    ELSE IF src = "spotify" /\ method \in {"get_playlists", "get_tracks_from_playlist"}
         THEN "raise"
    ELSE "empty"

FetchCall ==
    /\ Len(fn_log) < MaxFetchCalls
    /\ \E src \in Sources, m \in FetchMethods, r \in RemoteStates :
          fn_log' = Append(fn_log, [src |-> src, method |-> m, remote |-> r,
                                    out |-> Fetch(src, m, r)])
    /\ UNCHANGED <<runVars, tryVars, infoVars, shut_calls, mpv_volume, proxy_env, mpv_eof,
                   g_play_at, g_ins, clockVars, thVars, plVars, mpvVars, plGhost,
                   trVars, scVars, coVars, coGhost>>

FetchInit ==
    /\ ScInit
    /\ PlInit
    /\ CoInit
    /\ RestInit
    /\ srcs = Sources
    /\ pl_source = TRUE
    /\ pl_device = FALSE
    /\ sc_enabled = FALSE
    /\ tdur = MetaDuration

FetchNext == FetchCall

SpecFetch == FetchInit /\ [][FetchNext]_vars

\* ------------------------------------------------------------------------
\* Pandora station selection (sources/pandora.py get_radio_tracks 284-305)

\* a station list holds at most this many stations
MaxStations == 2

\* get_radio_tracks calls made in a row
MaxStationCalls == 1

\* "QuickMix" as character codes
QuickMixName == <<81, 117, 105, 99, 107, 77, 105, 120>>

\* names a station can carry: "R", "r", "QuickMix"
StationNames == {<<82>>, <<114>>, QuickMixName}

\* ids a station can carry: "R", "1"
StationIds == {<<82>>, <<49>>}

\* the seed argument; the empty string and None are both falsy
Seeds == {<<>>, <<82>>, <<114>>}

StationSet == [id : StationIds, name : StationNames, mix : BOOLEAN]

StationLists == UNION {[1 .. n -> StationSet] : n \in 0 .. MaxStations}

\* the station the playlists are fetched from: NoStation when the list is
\* empty (return []), 0 when no single station was picked (the shuffled
\* individual stations are used), else the index in the station list
NoStation == -1

FirstIndex(S) == CHOOSE i \in S : \A j \in S : i <= j

SeedHits(s, seed) == s.id = seed \/ Lower(s.name) = Lower(seed)

IsMix(s) ==
    s.mix \/ Lower(s.name) \in {Lower(QuickMixName),
                                <<115, 104, 117, 102, 102, 108, 101>>}

SelectStation(seed, stations) ==
    IF stations = <<>> THEN NoStation
    ELSE IF seed # <<>>
    THEN LET hits == {i \in DOMAIN stations : SeedHits(stations[i], seed)}
         IN  IF hits # {} THEN FirstIndex(hits) ELSE 1
    ELSE LET mixes == {i \in DOMAIN stations : IsMix(stations[i])}
         IN  IF mixes # {} THEN FirstIndex(mixes) ELSE 0

StationCall ==
    /\ Len(fn_log) < MaxStationCalls
    /\ \E seed \in Seeds, stations \in StationLists :
          fn_log' = Append(fn_log, [seed |-> seed, stations |-> stations,
                                    out |-> SelectStation(seed, stations)])
    /\ UNCHANGED <<runVars, tryVars, infoVars, shut_calls, mpv_volume, proxy_env, mpv_eof,
                   g_play_at, g_ins, clockVars, thVars, plVars, mpvVars, plGhost,
                   trVars, scVars, coVars, coGhost>>

StationNext == StationCall

SpecStation == FetchInit /\ [][StationNext]_vars

\* the order the selection is said to follow for a seed
ByTieBreak(seed, stations) ==
    LET ids   == {i \in DOMAIN stations : stations[i].id = seed}
        names == {i \in DOMAIN stations :
                     Lower(stations[i].name) = Lower(seed)}
        mixes == {i \in DOMAIN stations : IsMix(stations[i])}
    IN  IF ids # {} THEN FirstIndex(ids)
        ELSE IF names # {} THEN FirstIndex(names)
        ELSE IF mixes # {} THEN FirstIndex(mixes)
        ELSE 1

\* C35: for a seed and a non-empty station list the station chosen is the
\* one given by the order exact id match, then case-insensitive name match,
\* then the QuickMix station, then the first station; in particular an id
\* match wins over a name-only match wherever the two stand in the list.
C35_SeedTieBreakOrder ==
    \A k \in DOMAIN fn_log :
        (fn_log[k].seed # <<>> /\ fn_log[k].stations # <<>>)
            => fn_log[k].out = ByTieBreak(fn_log[k].seed, fn_log[k].stations)

\* ------------------------------------------------------------------------
\* Pandora client initialisation (sources/pandora.py _init_client 196-249)

\* max_retries, line 224
max_retries == 5

GeoWords == {<<99, 111, 117, 110, 116, 114, 121>>,
             <<103, 101, 111>>,
             <<110, 111, 116, 32, 97, 118, 97, 105, 108, 97, 98, 108, 101>>}

\* `word in msg` on strings of character codes
Contains(msg, word) ==
    \E i \in 0 .. Len(msg) - Len(word) :
        \A j \in 1 .. Len(word) : msg[i + j] = word[j]

\* lines 231-232: the lowered message names a country or geo restriction
IsGeoBlock(msg) == \E w \in GeoWords : Contains(Lower(msg), w)

\* str(e) of the exceptions a login raises: "", "Geo blocked", "bad login"
LoginMessages == {<<>>,
                  <<71, 101, 111, 32, 98, 108, 111, 99, 107, 101, 100>>,
                  <<98, 97, 100, 32, 108, 111, 103, 105, 110>>}

\* what one build-and-login attempt does: it returns, or raises with a message
LoginOutcomes ==
    {[ok |-> TRUE, msg |-> <<>>]} \cup {[ok |-> FALSE, msg |-> m] : m \in LoginMessages}

\* what stands in the way before the first attempt
InitConfigs == {"ready", "no_pydora", "no_credentials", "no_tor"}

\* error_message is None
NoError == <<>>

UnknownError == <<117, 110, 107, 110, 111, 119, 110, 32, 101, 114, 114, 111, 114>>

EarlyError(cfg) ==
    IF cfg = "no_pydora"
    THEN <<112, 121, 100, 111, 114, 97, 32, 110, 111, 116, 32, 105, 110, 115,
           116, 97, 108, 108, 101, 100>>
    ELSE IF cfg = "no_credentials"
    THEN <<101, 109, 97, 105, 108, 47, 112, 97, 115, 115, 119, 111, 114, 100,
           32, 110, 111, 116, 32, 115, 101, 116>>
    ELSE <<99, 111, 117, 108, 100, 32, 110, 111, 116, 32, 115, 116, 97, 114,
           116, 32, 84, 111, 114>>

\* the handler without line 242: the client built at line 227 stays
LoginFailedKeepsClient(o, attempt) ==
    [client |-> TRUE,
     error |-> IF o.msg # <<>> THEN Lower(o.msg) ELSE UnknownError,
     attempts |-> attempt + 1, circuits |-> attempt]

\* lines 237-242: the exception is re-raised and handled
LoginFailed(o, attempt) ==
    [client |-> FALSE,
     error |-> IF o.msg # <<>> THEN Lower(o.msg) ELSE UnknownError,
     attempts |-> attempt + 1, circuits |-> attempt]

\* lines 225-242: the attempt numbered `attempt` (from 0) and what follows it
RECURSIVE LoginFrom(_, _)
LoginFrom(attempt, outcomes) ==
    LET o == outcomes[attempt + 1]
    IN  IF o.ok
        THEN [client |-> TRUE, error |-> NoError, attempts |-> attempt + 1,
              circuits |-> attempt]
        ELSE IF IsGeoBlock(o.msg) /\ attempt < max_retries - 1
        THEN LoginFrom(attempt + 1, outcomes)
        ELSE LoginFailed(o, attempt)

\* _init_client on a fresh object (client None, error_message None)
InitClient(cfg, outcomes) ==
    IF cfg # "ready"
    THEN [client |-> FALSE, error |-> EarlyError(cfg), attempts |-> 0,
          circuits |-> 0]
    ELSE LoginFrom(0, outcomes)

\* is_configured(), line 249
IsConfigured(res) == res.client

\* PandoraSource.__init__ runs _init_client once
InitCall ==
    /\ fn_log = <<>>
    /\ \E cfg \in InitConfigs, outcomes \in [1 .. max_retries -> LoginOutcomes] :
          fn_log' = Append(fn_log, [cfg |-> cfg, outcomes |-> outcomes,
                                    out |-> InitClient(cfg, outcomes)])
    /\ UNCHANGED <<runVars, tryVars, infoVars, shut_calls, mpv_volume, proxy_env, mpv_eof,
                   g_play_at, g_ins, clockVars, thVars, plVars, mpvVars, plGhost,
                   trVars, scVars, coVars, coGhost>>

InitClientNext == InitCall

SpecInitClient == FetchInit /\ [][InitClientNext]_vars

\* C38: initialisation tries the login at most five times; every attempt but
\* the last one made failed with a geo-block error (and was followed by one
\* request for a new circuit); when the last attempt made failed (any other
\* error, or the fifth failure) the client is unset, error_message is not
\* empty and is_configured() is false
C38_LoginRetriesOnlyOnGeoBlock ==
    \A k \in DOMAIN fn_log :
       LET c == fn_log[k]
       IN  c.cfg = "ready" =>
              /\ c.out.attempts \in 1 .. 5
              /\ c.out.circuits = c.out.attempts - 1
              /\ \A i \in 1 .. c.out.attempts - 1 :
                    ~c.outcomes[i].ok /\ IsGeoBlock(c.outcomes[i].msg)
              /\ ~c.outcomes[c.out.attempts].ok =>
                    /\ c.out.attempts = 5 \/ ~IsGeoBlock(c.outcomes[c.out.attempts].msg)
                    /\ ~c.out.client
                    /\ c.out.error # NoError /\ Len(c.out.error) > 0
                    /\ ~IsConfigured(c.out)

\* five geo-blocked attempts, and a first attempt that failed otherwise
C38_Witness ==
    \E k \in DOMAIN fn_log :
       /\ fn_log[k].cfg = "ready"
       /\ fn_log[k].out.attempts = 5
       /\ \A i \in 1 .. 5 : IsGeoBlock(fn_log[k].outcomes[i].msg)
       /\ ~fn_log[k].outcomes[5].ok
       /\ ~fn_log[k].out.client
       /\ fn_log[k].out.error # NoError

\* ------------------------------------------------------------------------
\* The adapter's volume: set_volume, volume_up and volume_down in any order
\* ------------------------------------------------------------------------

\* arguments of set_volume, and steps of volume_up / volume_down (the key
\* loop uses the default step 5)
VolumeArgs == {-10, 0, 3, 50, 100, 250}

StepArgs == {-20, 0, 5, 30, 300}

Max(a, b) == IF a > b THEN a ELSE b

\* int(self.mpv.volume or 50): a volume of 0 (or None) reads as 50
VolumeOr50 == IF mpv_volume = 0 THEN 50 ELSE mpv_volume

SetVolumeUnclamped(v) == mpv_volume' = v

\* set_volume, lines 186-187: the value is clamped to 0..100 and applied
SetVolume(v) == mpv_volume' = Max(0, Min(100, v))

\* volume_up, line 193
VolumeUp(step) == SetVolume(VolumeOr50 + step)

\* volume_down, line 197
VolumeDown(step) == SetVolume(VolumeOr50 - step)

\* the call is appended to the log with the volume before and after
VolLogged(op, arg) ==
    fn_log' = Append(fn_log, [op |-> op, arg |-> arg, before |-> mpv_volume,
                              after |-> mpv_volume'])

VolOthers ==
    UNCHANGED <<runVars, tryVars, infoVars, shut_calls, proxy_env, mpv_eof, g_play_at,
                g_ins, clockVars, thVars, plVars, mpvVars, plGhost, trVars, scVars, coVars,
                coGhost>>

VolSet ==
    /\ Len(fn_log) < MaxVolumeCalls
    /\ \E v \in VolumeArgs : SetVolume(v) /\ VolLogged("set_volume", v)
    /\ VolOthers

VolUp ==
    /\ Len(fn_log) < MaxVolumeCalls
    /\ \E st \in StepArgs : VolumeUp(st) /\ VolLogged("volume_up", st)
    /\ VolOthers

VolDown ==
    /\ Len(fn_log) < MaxVolumeCalls
    /\ \E st \in StepArgs : VolumeDown(st) /\ VolLogged("volume_down", st)
    /\ VolOthers

VolumeNext == VolSet \/ VolUp \/ VolDown

SpecVolume == FetchInit /\ [][VolumeNext]_vars

\* C36: from every volume v in 0..100 and for every step s >= 0, volume_up(s)
\* ends at min(100, v + s) and volume_down(s) ends at max(0, v - s); so
\* volume_down never raises the volume and volume_up never lowers it.
C36_StepsMoveFromCurrentVolume ==
    \A k \in DOMAIN fn_log :
        (fn_log[k].before \in 0 .. 100 /\ fn_log[k].arg >= 0) =>
            /\ fn_log[k].op = "volume_up"
                  => fn_log[k].after = Min(100, fn_log[k].before + fn_log[k].arg)
            /\ fn_log[k].op = "volume_down"
                  => fn_log[k].after = Max(0, fn_log[k].before - fn_log[k].arg)

\* ------------------------------------------------------------------------
\* The scrobble tracker on its own: sessions and position samples
\* ------------------------------------------------------------------------

ScrobbleInit ==
    /\ ScInit
    /\ PlInit
    /\ CoInit
    /\ RestInit
    /\ srcs = {}
    /\ pl_source = FALSE
    /\ pl_device = FALSE
    /\ sc_enabled \in BOOLEAN
    /\ \E d1, d2 \in TrackDurations :
          tdur = [t \in TrackIds |-> IF t = 1 THEN d1 ELSE IF t = 2 THEN d2
                                     ELSE MetaDuration[t]]

\* the calls that start a session are logged with the scrobbled flag they
\* found
ScLogged(op) ==
    fn_log' = Append(fn_log, [op |-> op, before |-> sc_scrobbled])

ScNowPlaying ==
    /\ sc_sessions < MaxSessions
    /\ \E t \in TrackIds, net_ok \in BOOLEAN : NowPlaying(t, net_ok)
    /\ ScLogged("now_playing")
    /\ UNCHANGED <<runVars, tryVars, infoVars, shut_calls, mpv_volume, proxy_env, mpv_eof, g_play_at,
                   g_ins, clockVars, thVars, plVars, mpvVars, plGhost, trVars, coVars,
                   coGhost>>

ScClearNowPlaying ==
    /\ sc_track # NoTrack
    /\ ClearNowPlaying
    /\ UNCHANGED <<restVars, clockVars, thVars, plVars, mpvVars, plGhost, trVars, coVars,
                   coGhost>>

ScCheckScrobble ==
    /\ sc_calls < MaxCalls
    /\ \E pos \in ScPositions, adur \in TrackDurations, net_ok \in BOOLEAN :
          CheckScrobble(pos, adur, net_ok)
    /\ UNCHANGED <<restVars, clockVars, thVars, plVars, mpvVars, plGhost, trVars, coVars, coGhost>>

ScNext == ScNowPlaying \/ ScClearNowPlaying \/ ScCheckScrobble

SpecScrobble == ScrobbleInit /\ [][ScNext]_vars

\* ------------------------------------------------------------------------
\* The playback adapter on its own: one caller, the clock and the engine
\* ------------------------------------------------------------------------

PlayerInit ==
    /\ ScInit
    /\ PlInit
    /\ CoInit
    /\ RestInit
    /\ srcs = {}
    /\ sc_enabled = FALSE
    /\ pl_source \in BOOLEAN
    /\ pl_device \in BOOLEAN
    /\ pl_device => pl_source
    /\ tdur = MetaDuration

\* play(track) is called
PCallPlay ==
    /\ pc["key"] = "idle"
    /\ \E t \in TrackIds : PlayBegin("key", t)
    /\ g_frozen' = 0
    /\ g_resumed' = 0
    /\ g_cycles' = 0
    /\ UNCHANGED <<auxVars, runVars, infoVars, clockVars, ret, trVars, scVars, coVars, coGhost>>

\* get_stream_file returned a file
PPlayLibrespot ==
    /\ PlayLibrespot("key")
    /\ UNCHANGED <<restVars, clockVars, ret, plGhost, trVars, scVars, coVars, coGhost>>

\* play_track_on_device returned True
PPlayConnect ==
    /\ PlayConnect("key")
    /\ UNCHANGED <<restVars, clockVars, ret, plGhost, trVars, scVars, coVars, coGhost>>

PPlayTimer ==
    /\ PlayTimer("key")
    /\ UNCHANGED <<runVars, tryVars, infoVars, shut_calls, mpv_volume, proxy_env, mpv_eof, g_ins,
                   fn_log, clockVars, ret, plGhost, trVars, scVars, coVars, coGhost>>

PPlayMpv ==
    /\ PlayMpv("key")
    /\ UNCHANGED <<restVars, clockVars, ret, plGhost, trVars, scVars, coVars, coGhost>>

\* pause() is called while a remote session plays
PCallPause ==
    /\ pc["key"] = "idle"
    /\ PauseSave("key")
    /\ g_frozen' = Position
    /\ UNCHANGED <<restVars, clockVars, ret, g_resumed, g_cycles, trVars, scVars, coVars, coGhost>>

\* pause() is called while a remote session is paused
PCallResume ==
    /\ pc["key"] = "idle"
    /\ ResumeAnchor("key")
    /\ g_resumed' = now
    /\ g_cycles' = Min(g_cycles + 1, MaxCycles)
    /\ UNCHANGED <<restVars, clockVars, ret, g_frozen, trVars, scVars, coVars, coGhost>>

PPauseToggle ==
    /\ PauseToggle("key")
    /\ UNCHANGED <<restVars, clockVars, ret, plGhost, trVars, scVars, coVars, coGhost>>

\* pause() is called in local-engine mode
PCallPauseMpv ==
    /\ pc["key"] = "idle"
    /\ PauseMpv("key")
    /\ UNCHANGED <<restVars, clockVars, ret, plGhost, trVars, scVars, coVars, coGhost>>

PTick ==
    /\ Tick
    /\ UNCHANGED <<restVars, thVars, plVars, plGhost, trVars, scVars, coVars, coGhost>>

PlayerNext ==
    \/ PCallPlay
    \/ PPlayLibrespot
    \/ PPlayConnect
    \/ PPlayTimer
    \/ PPlayMpv
    \/ PCallPause
    \/ PCallResume
    \/ PPauseToggle
    \/ PCallPauseMpv
    \/ PTick

SpecPlayer == PlayerInit /\ [][PlayerNext]_vars

\* ------------------------------------------------------------------------
\* Coordinator claims (checked under Spec, SpecTopUp and SpecSeq)
\* ------------------------------------------------------------------------

\* the positions of a thread inside play_next after it passed the guard
\* test of line 363
BodyPcs == {"pn_set", "pn_load", "lq_reset", "lq_src", "pn_refill", "pn_pop",
            "pn_play", "play_start", "play_timer", "pn_cur", "pn_now", "pn_fin"}

\* C1: of two play_next invocations that overlap, only one gets past the
\* _playing_next guard and performs the track transition: two threads are
\* never both inside the guarded body of play_next
C1_OneTransitionAtATime ==
    Cardinality({t \in Threads : pc[t] \in BodyPcs}) <= 1

\* load_queue has gone through all its sources and is about to shuffle and
\* report
LoadDone(self) == pc[self] = "lq_src" /\ loc[self].i > Len(SourceList)

\* C5: a load_queue that starts after a ban puts no track into the queue
\* whose artist and title match a pair of the ban list under
\* case-insensitive comparison, whichever provider returned it
C5_LoadExcludesBanned ==
    \A self \in Threads :
        pc[self] = "lq_src" =>
            \A k \in DOMAIN queue :
                ~IsBannedIn(loc[self].ban0, TrackArtist[queue[k]], TrackTitle[queue[k]])

\* C5 witness: a load has finished in which a provider returned a track that
\* matches a banned pair only through the case-insensitive comparison
C5_Witness ==
    \E self \in Threads :
        /\ LoadDone(self)
        /\ \E n \in srcs : \E k \in DOMAIN loc[self].returned[n] :
              LET t == loc[self].returned[n][k]
              IN  /\ IsBannedIn(loc[self].ban0, TrackArtist[t], TrackTitle[t])
                  /\ <<TrackArtist[t], TrackTitle[t]>> \notin loc[self].ban0

\* the tracks a provider returned to this load that are not ban-listed
Expected(self, n) ==
    IF n \in srcs
    THEN Len(SelectSeq(loc[self].returned[n],
                       LAMBDA t : ~IsBannedIn(loc[self].ban0, TrackArtist[t],
                                              TrackTitle[t])))
    ELSE 0

\* C6: when load_queue is done (no provider call having raised), the queue's
\* length is the sum over the configured providers of their returned,
\* non-banned tracks, and the breakdown has for every configured provider an
\* entry equal to that provider's own count, 0 included
C6_LoadCountsPerProvider ==
    \A self \in Threads :
        LoadDone(self) /\ loc[self].raised = {} =>
            /\ Len(queue) = Expected(self, "spotify") + Expected(self, "pandora")
                               + Expected(self, "youtube")
            /\ \A n \in srcs : loc[self].counts[n] = Expected(self, n)

C9_BanWithoutTrackIsNoOp ==
    [][cur = NoTrack /\ g_ban' # g_ban =>
          /\ g_ban' = "noop"
          /\ UNCHANGED <<banned, queue, history, cur, pc, playing_next, tu, loc>>]_vars

\* C9 witness: ban_current has been called without a current track
C9_Witness == g_ban = "noop" /\ cur = NoTrack

\* C10: when the timer compares the stored position with the adapter's
\* duration, the stored position was read from the playback of the track
\* play() was last called for (or from no playback at all), never from the
\* track that played before
C10_TimerComparesOwnPosition ==
    pc["timer"] = "tm_check" /\ TimerCompares /\ Duration > 0 =>
        cur_pos_of \in {NoTrack, pl_track}

\* ------------------------------------------------------------------------
\* Scrobble tracker claims (checked under SpecScrobble)
\* ------------------------------------------------------------------------

\* the last check_scrobble call was made in a session of a track of known
\* duration, with non-decreasing positions so far
ScKnownSession ==
    /\ sc_last.called
    /\ sc_last.active
    /\ sc_last.tdur > 0
    /\ sc_monotone

\* the last call is the first of its session at which the threshold is met
ScFirstMet == sc_prior /\ ~sc_last.prior

\* a submission succeeded in the session before the last call
ScAcceptedEarlier == sc_accepted - (IF sc_last.ok THEN 1 ELSE 0) >= 1

C4_UnknownDurationTimeOnly ==
    (sc_last.called /\ sc_last.active /\ ~sc_last.pre
        /\ sc_last.adur = 0 /\ sc_last.tdur = 0)
    => (sc_last.attempted <=> sc_last.pos >= 240)

\* C4 witness: with both durations unknown a call at position >= 240
\* submitted after a call below 240 had not.
C4_Witness ==
    /\ sc_last.called /\ sc_last.active /\ ~sc_last.pre
    /\ sc_last.adur = 0 /\ sc_last.tdur = 0
    /\ sc_last.pos >= 240
    /\ sc_last.attempted
    /\ sc_calls = 2
    /\ sc_attempts = 1

\* ------------------------------------------------------------------------
\* Playback adapter claims (checked under SpecPlayer)
\* ------------------------------------------------------------------------

\* no adapter call is in progress and a remote-device session is in effect
RemoteIdle == pc["key"] = "idle" /\ pl_connect

\* C8: in remote-device mode the position read after pause() equals the
\* position read immediately before it and stays there while paused; after
\* resume the position continues from that offset (the offset plus the time
\* since the resume), never from 0, over any number of pause/resume cycles.
C8_PauseFreezesResumeContinues ==
    /\ (RemoteIdle /\ pl_paused) => Position = g_frozen
    /\ (pl_connect /\ pl_paused /\ pc["key"] = "pause_net") => Position = g_frozen
    /\ (RemoteIdle /\ ~pl_paused /\ g_cycles >= 1)
          => Position = g_frozen + (now - g_resumed)

\* C8 witness: a remote session that played for a while, was paused and
\* resumed twice, and plays on from an offset that is not 0.
C8_Witness ==
    /\ RemoteIdle
    /\ ~pl_paused
    /\ g_cycles >= 2
    /\ g_frozen > 0
    /\ now > g_resumed
    /\ Position = g_frozen + (now - g_resumed)

\* the concurrent actors that reach the queue, the history and the current
\* track: the threads that call play_next, and the background top-up thread
Actors == Threads \cup {"topup"}

\* the actor is inside code that mutates them: the body of play_next (with
\* load_queue called from it), or the insertion loop of the top-up
InMutatingCode(a) ==
    IF a = "topup" THEN tu.state = "insert" ELSE pc[a] \in BodyPcs

\* C12: all mutation of the queue, the current track and the history is
\* serialized: no two actors are inside mutating code at the same time
C12_MutationSerialized ==
    Cardinality({a \in Actors : InMutatingCode(a)}) <= 1

\* C13: the tags and loved flag on display were fetched for the current
\* track: a fetch that completes after play_next moved on to another track
\* is not applied
C13_InfoOfCurrentTrackOnly ==
    cur_info \in {NoTrack, cur}

\* C14: shutdown is terminal: once running is cleared and Player.shutdown
\* has been called, no thread enters play() and the queue, the history and
\* the current track do not change any more
C14_ShutdownIsTerminal ==
    [][shut => /\ UNCHANGED <<queue, history, cur>>
               /\ \A t \in Threads :
                     pc'[t] = "play_start" => pc[t] = "play_start"]_vars

\* play_next is about to return through lines 376-378: the queue was still
\* empty after the reload, nothing was popped
QueueEmptyReturn(self) == pc[self] = "pn_fin" /\ loc[self].track = NoTrack

\* C15: when play_next finds the queue still empty after reloading, it
\* leaves the coordinator idle: no track is marked as current afterwards
C15_EmptyQueueLeavesIdle ==
    \A self \in Threads : QueueEmptyReturn(self) => cur = NoTrack

\* C16: every ban_current call made with a current track records the
\* track's artist and title in the local ban list, whatever its provider
\* answers, and the record is in the list when play_next is invoked
C16_BanRecordedBeforeNext ==
    [][(cur # NoTrack /\ (g_ban' # g_ban \/ banned' # banned))
         => /\ IsBannedIn(banned', TrackArtist[cur], TrackTitle[cur])
            /\ pc["key"] = "idle"
            /\ pc'["key"] = "pn_guard"]_vars

\* the provider did not ban the track (unsupported or failed), the pair is
\* in the ban list, and play_next has just been invoked
C16_Witness ==
    /\ g_ban = "refused"
    /\ cur # NoTrack
    /\ IsBanned(TrackArtist[cur], TrackTitle[cur])
    /\ pc["key"] = "pn_guard"

\* ------------------------------------------------------------------------
\* Key-loop claims (checked under SpecKeys)
\* ------------------------------------------------------------------------

\* C11: whenever the key loop is between operations (any sequence of
\* toggle_pause, play_next and ban_current has completed), the coordinator's
\* paused flag equals the playback adapter's paused flag
C11_PausedFlagsAgree ==
    pc["key"] = "idle" => co_paused = pl_paused

\* play() has been called and has returned
PlayReturned ==
    pl_track # NoTrack /\ pc["key"] \notin {"play_start", "play_timer"}

\* the backend the adapter's flags name
Mode ==
    IF pl_librespot /\ pl_connect THEN "both"
    ELSE IF pl_librespot THEN "file"
    ELSE IF pl_connect THEN "remote"
    ELSE "local"

\* the backend the priority order gives for the answers play() got
ModeByPriority ==
    LET spotify == TrackSource[pl_track] = "spotify" /\ pl_source
    IN  IF spotify /\ g_try.file THEN "file"
        ELSE IF spotify /\ pl_device /\ g_try.remote THEN "remote"
        ELSE "local"

\* C17: after play() the backend is the first available of prefetched
\* file, remote device, local engine; exactly one mode is in effect (the
\* engine holds the track except in remote mode, where it holds nothing)
\* and the remote-device and prefetched-file flags are never both set
C17_BackendByPriority ==
    /\ ~(pl_librespot /\ pl_connect)
    /\ PlayReturned =>
          /\ Mode = ModeByPriority
          /\ mpv_file = (IF Mode = "remote" THEN NoTrack ELSE pl_track)
          /\ pl_temp = (IF Mode = "file" THEN pl_track ELSE NoTrack)

\* both the prefetched file and the remote device were available, and the
\* file was chosen
C17_Witness ==
    /\ PlayReturned
    /\ g_try.file /\ g_try.remote
    /\ Mode = "file"

\* the remote device still renders the track of the session that the last
\* play() call found in progress
OldRemoteRenders == g_try.kept /\ ~pl_connect

\* C37: after play() returns at most one backend renders audio: when the new
\* track was started on the local engine or from a prefetched file, a remote
\* session that was playing the previous track has been paused, and when it
\* was started on the remote device the local engine has been stopped
C37_OneBackendAfterPlay ==
    PlayReturned =>
       /\ Mode \in {"local", "file"} => ~OldRemoteRenders
       /\ Mode = "remote" => mpv_file = NoTrack

\* C39: the coordinator's scrobbled mark for the current track is set only
\* if the tracker's session is for that track and has its scrobbled flag
\* set; however the timer thread and play_next interleave, once play_next
\* has finished, a flag left by the previous track's session does not mark
\* the new track
C39_MarkFollowsSession ==
    (\A self \in Threads : pc[self] \notin BodyPcs) =>
        (current_scrobbled => (sc_track = cur /\ sc_scrobbled))

\* a step in which a thread makes a network call of Spotify or YouTube: the
\* Spotify calls of play() (get_stream_file, play_track_on_device) or the
\* load of the next source of load_queue when that source is not Pandora
OtherProviderCall ==
    \E self \in Threads :
       \/ /\ pc[self] = "play_start" /\ pc'[self] # "play_start"
          /\ TrackSource[pl_track] = "spotify" /\ pl_source
          /\ g_try.file \/ pl_device
       \/ /\ pc[self] = "lq_src" /\ loc'[self].i = loc[self].i + 1
          /\ SourceList[loc[self].i] \in {"spotify", "youtube"}

\* C40: the proxy variables are set only while a Pandora call is in
\* progress, and no Spotify or YouTube call is made while they are set,
\* also while a background top-up runs beside the other threads
C40_ProxyOnlyDuringPandoraCall ==
    [][/\ OtherProviderCall => ~proxy_env
       /\ proxy_env' => tu'.state = "call"]_vars

\* ------------------------------------------------------------------------
\* Failure claims (checked under SpecFail)
\* ------------------------------------------------------------------------

\* no backend renders the track of the last play() call
NothingStarted ==
    pl_track # NoTrack /\ ~pl_connect /\ mpv_file # pl_track

\* how the play() call of play_next ended, as its caller sees it: play() has
\* no return value, so a normal return is the same for every path
PlayOutcome(self) ==
    IF pc[self] = "crashed" THEN "raised"
    ELSE IF pc[self] = "pn_cur" THEN "returned"
    ELSE "none"

\* C18: when every backend failed to start the track, play() neither raises
\* to its caller nor returns as it does after a successful start
C18_FailureIsReported ==
    \A self \in Threads :
       NothingStarted => PlayOutcome(self) \notin {"raised", "returned"}

\* C19: a failure while starting a track inside play_next does not end the
\* key loop: the loop is not left, running stays set
C19_StartFailureKeepsLoop ==
    running /\ pc["key"] \notin {"crashed", "exited"}

\* ------------------------------------------------------------------------
\* Start-up claims (checked under SpecRun)
\* ------------------------------------------------------------------------

\* C20: run() ends the session before entering the key loop only when no
\* provider is configured
C20_EarlyEndOnlyWithoutProviders ==
    pc["key"] = "ended" => srcs = {}

\* ------------------------------------------------------------------------
\* Session-end claims (checked under SpecQuit)
\* ------------------------------------------------------------------------

\* C21: every way of leaving the key loop (quit key, keyboard interrupt,
\* exception from a key handler) clears running and then calls
\* Player.shutdown exactly once before run() is left
C21_LeaveLoopShutsDownOnce ==
    /\ shut_calls <= 1
    /\ shut_calls = 1 => ~running
    /\ pc["key"] = "exited" => ~running /\ shut_calls = 1

\* run() has been left after play() raised inside a key handler: the track
\* handed to play() never became current
C21_Witness ==
    /\ pc["key"] = "exited"
    /\ shut_calls = 1
    /\ pl_track # NoTrack
    /\ cur # pl_track

\* ------------------------------------------------------------------------
\* Provider claims (checked under SpecFetch)
\* ------------------------------------------------------------------------

\* C22: for every provider, get_playlists, get_tracks_from_playlist and
\* get_radio_tracks return an empty list when the remote call fails, and
\* never raise
C22_FetchFailsSoft ==
    \A i \in DOMAIN fn_log :
       /\ fn_log[i].out # "raise"
       /\ fn_log[i].remote = "fail" => fn_log[i].out = "empty"

\* ------------------------------------------------------------------------
\* Volume claims (checked under SpecVolume)
\* ------------------------------------------------------------------------

\* C23: after any sequence of set_volume, volume_up and volume_down calls
\* with any integer arguments the engine's volume is within 0..100
C23_VolumeInRange ==
    mpv_volume \in 0 .. 100

\* set_volume was called with a value above the range and with one below it
C23_Witness ==
    /\ \E i \in DOMAIN fn_log :
          fn_log[i].op = "set_volume" /\ fn_log[i].arg > 100 /\ fn_log[i].after = 100
    /\ \E i \in DOMAIN fn_log :
          fn_log[i].op = "set_volume" /\ fn_log[i].arg < 0 /\ fn_log[i].after = 0

\* ------------------------------------------------------------------------
\* End-of-file claims (checked under SpecEof)
\* ------------------------------------------------------------------------

\* C24: when a track started in local-engine mode reaches its natural end,
\* the handler of the end-file event calls the track-end callback
\* (play_next): once the play_next that started the track has returned,
\* the loading flag no longer suppresses the event
C24_LocalEofAdvances ==
    [][(mpv_eof /\ ~mpv_eof' /\ ~pl_librespot /\ ~pl_connect /\ pc["key"] = "idle")
         => pc'["eof"] = "pn_guard"]_vars

\* ------------------------------------------------------------------------
\* Remote-session claims (checked under SpecRemote)
\* ------------------------------------------------------------------------

\* the remote session of track t is not paused in the adapter and its
\* synthesized position is within 1 second of the known duration
RemoteAtEnd(t) ==
    /\ pl_connect
    /\ pl_track = t
    /\ ~pl_paused
    /\ Duration > 0
    /\ GetSpotifyPosition >= Duration - 1

\* the status thread has found the end of the remote track (lines 203-205)
\* and calls, or has called, _on_track_end
TimerFoundEnd ==
    \/ pc["timer"] = "tm_check" /\ TimerCompares /\ Duration > 0
           /\ cur_pos >= Duration - 1
    \/ pc["timer"] \notin {"tm_top", "tm_store", "tm_check"}

\* C25: in remote-device mode, whenever the adapter is not paused and the
\* position of the current track is within 1 second of its duration, the
\* status thread eventually finds the end and invokes play_next (unless the
\* user pauses or starts another session first): the track never stalls at
\* its end
C25_RemoteEndAdvances ==
    \A t \in {x \in TrackIds : TrackSource[x] = "spotify"} :
        RemoteAtEnd(t) ~> (TimerFoundEnd \/ ~RemoteAtEnd(t))

\* C26: in remote-device mode, a position the status thread reads while
\* pause() is executing does not exceed the time elapsed since the playback
\* of the current track started (and so cannot reach the track's end before
\* the track does)
C26_ReadDuringPauseBounded ==
    [][(/\ pc["timer"] = "tm_top" /\ pc'["timer"] = "tm_store"
        /\ pc["key"] = "pause_net"
        /\ pl_connect
        /\ g_play_at # NoTime)
         => loc'["timer"].sample <= now - g_play_at]_vars

\* ------------------------------------------------------------------------
\* Scrobbling by the status timer (checked under SpecScTimer)
\* ------------------------------------------------------------------------

\* C27: once the scrobble session of the track that plays has started,
\* every position the status thread passes to check_scrobble was sampled
\* from the playback of that track, never from the track that played before
C27_ScrobbleChecksOwnPosition ==
    [][(sc_calls' = sc_calls + 1 /\ sc_track # NoTrack /\ sc_track = pl_track)
         => cur_pos_of = sc_track]_vars

\* ------------------------------------------------------------------------
\* Top-up claims (checked under SpecSeq and SpecTopUp)
\* ------------------------------------------------------------------------

\* play_next passes line 374 while the model can still start a top-up
RefillStep(self) ==
    /\ pc[self] = "pn_refill"
    /\ pc'[self] # "pn_refill"
    /\ tu.state = "none"
    /\ tu_count < MaxTopUps

\* C28 as stated: on each play_next a top-up is started for every
\* configured provider with fewer than 3 tracks in the queue and for no
\* other provider (the top-ups the code starts fetch from Pandora)
C28_TopUpForEveryProvider ==
    [][\A self \in Threads : RefillStep(self) =>
          \A name \in srcs :
             (name = "pandora" /\ tu'.state = "fetch") <=> (InQueue(name) < 3)]_vars

\* C28 amended: on each play_next a top-up is started exactly when Pandora
\* is configured and fewer than 3 Pandora tracks are in the queue, whatever
\* the number of queued tracks of the other providers
C28_TopUpForPandoraOnly ==
    [][\A self \in Threads : RefillStep(self) =>
          ((tu'.state = "fetch") <=>
             /\ "pandora" \in srcs
             /\ Cardinality({i \in DOMAIN queue : TrackSource[queue[i]] = "pandora"}) < 3)]_vars

\* C28 witness: play_next has just started a top-up with fewer than 3
\* Pandora tracks and fewer than 3 Spotify tracks queued
C28_Witness ==
    /\ pc["key"] = "pn_pop"
    /\ tu.state = "fetch"
    /\ "spotify" \in srcs
    /\ InQueue("pandora") < 3
    /\ InQueue("spotify") < 3

C30_NoBannedTrackAdded ==
    [][\A t \in TrackIds :
          Count(queue', t) > Count(queue, t) =>
             ~IsBanned(TrackArtist[t], TrackTitle[t])]_vars

\* ------------------------------------------------------------------------
\* Claims about load_queue and the history (checked under SpecSeq)
\* ------------------------------------------------------------------------

\* C31: load_queue never raises: from every point inside it the caller goes
\* on inside it or returns normally; when it returns, the non-banned tracks
\* of every provider whose fetch did not raise are in the queue, also when
\* another provider's fetch raised; and a load that gathered nothing returns
\* with the queue empty
C31_LoadNeverRaises ==
    [][\A self \in Threads :
          pc[self] \in {"lq_reset", "lq_src"} =>
             /\ pc'[self] \in {"lq_reset", "lq_src", "pn_refill", "run_loaded"}
             /\ (LoadDone(self) /\ pc'[self] # "lq_src") =>
                   /\ \A n \in srcs \ loc[self].raised :
                         \A k \in DOMAIN loc[self].returned[n] :
                            LET t == loc[self].returned[n][k]
                            IN  ~IsBannedIn(loc[self].ban0, TrackArtist[t], TrackTitle[t])
                                   => Count(queue', t) >= 1
                   /\ (queue = <<>> => queue' = <<>>)]_vars

\* C31 witness: a load is done in which the Spotify fetch raised and the
\* tracks of another provider are in the queue
C31_Witness ==
    \E self \in Threads :
        /\ LoadDone(self)
        /\ "spotify" \in loc[self].raised
        /\ loc[self].returned["pandora"] # <<>>
        /\ queue # <<>>

\* ------------------------------------------------------------------------
\* Termination of the status thread (checked under SpecQuitFair)
\* ------------------------------------------------------------------------

\* the status thread is no longer in its loop
TimerLeft == pc["timer"] \in {"exited", "crashed"}

\* the status thread is about to call _on_track_end at a point where the
\* model starts no further track transition
TimerAtBound ==
    /\ pc["timer"] = "tm_check"
    /\ TimerCompares /\ Duration > 0 /\ cur_pos >= Duration - 1
    /\ ~CanInvoke

\* C32: once running is cleared, the status thread leaves its loop after
\* finitely many steps, from every point of the loop, the end-of-track path
\* that skips the sleep included
C32_TimerLeavesLoop == ~running ~> (TimerLeft \/ TimerAtBound)

\* C32 witness: running has been cleared while the status thread is on the
\* end-of-track path, about to return from the play_next it called and to
\* test running again without sleeping
C32_Witness ==
    /\ ~running
    /\ pc["timer"] = "pn_fin"
    /\ cur # NoTrack

\* ------------------------------------------------------------------------
\* The scrobbled flag (checked under SpecScrobble)
\* ------------------------------------------------------------------------

\* C33 as stated: the scrobbled flag changes from true to false only when a
\* new session is started for a new track
C33_FlagResetOnlyByNewTrack ==
    [][(sc_scrobbled /\ ~sc_scrobbled')
         => (sc_sessions' = sc_sessions + 1 /\ sc_track' # sc_track)]_vars

\* C33 amended: the scrobbled flag changes from true to false only when
\* now_playing starts a new session (for another track or for the same
\* track again) or clear_now_playing ends the session; within a session it
\* only changes from false to true
C33_FlagResetOnlyBySessionChange ==
    [][(sc_scrobbled /\ ~sc_scrobbled')
         => (sc_sessions' = sc_sessions + 1 \/ sc_track' = NoTrack)]_vars

\* C33 witness: a session whose flag was set has been replaced by a new
\* session, in which a check_scrobble call has been made and the flag is
\* clear
C33_Witness ==
    /\ \E i \in DOMAIN fn_log :
          fn_log[i].op = "now_playing" /\ fn_log[i].before
    /\ sc_track # NoTrack
    /\ sc_last.called
    /\ ~sc_scrobbled

\* C34: the history holds superseded tracks only: a play_next call that
\* starts no new track (the queue is still empty after the reload) leaves
\* the track that is still current out of the history
C34_HistoryOnlySuperseded ==
    \A self \in Threads :
        (QueueEmptyReturn(self) /\ cur # NoTrack) =>
            (history = <<>> \/ history[Len(history)] # cur)

====
